---- MODULE Spec2Model ----
(***************************************************************************)
(* A model of the process scheduler of the imm-dos-nx kernel:              *)
(* the task map, the id generator, cooperative yield, fork, sleep, the     *)
(* timer tick, exit / wait_pid, and the page directories fork builds.      *)
(***************************************************************************)
EXTENDS Integers, Sequences, FiniteSets, TLC

(* ------------------------------ bounds -------------------------------- *)

\* ids the generator hands out in one run
MaxIssued == 3
\* frames of the allocator's pool
NumFrames == 4
\* longest sleep a process asks for, in ms
MaxSleep == 2
\* longest interval between two timer ticks, in ms
MaxDelta == 2
\* the bytes a pipe's ring holds
PipeCapacity == 2
\* the bytes all writes to pipes take together
MaxWritten == 3
\* the FileHandles a process holds at a time
MaxHandles == 2
\* the LocalHandles the allocator of DEV hands out
MaxMinted == 3

(* ------------------------- program constants --------------------------- *)

\* a u32 is kept as its two 16-bit halves <<high, low>>, each below 2^16
HalfModulus == 65536
\* first slot of the kernel window (0x300)
KernelWindowStart == 768
\* end of the copy loop `0x300..0x3ff`, exclusive (0x3ff)
KernelWindowEnd == 1023
\* the self-map slot of a page directory
SelfMapSlot == 1023
\* syscall method codes
SYS_EXIT == 0
SYS_FORK == 1
SYS_SLEEP == 5
SYS_YIELD == 6
SYS_WAIT_PID == 9

\* Option::None for frames and method codes
None == -1

ExitCodes == {0, 16}

Min(S) == CHOOSE x \in S : \A y \in S : x <= y

(* -------------------------------- u32 ---------------------------------- *)

\* the u32 of a number below 2^16
U32(n) == <<0, n>>

\* a < b on u32 (ProcessID derives its order from its u32)
Lt(a, b) == a[1] < b[1] \/ (a[1] = b[1] /\ a[2] < b[2])

\* u32::wrapping_add(a, 1)
wrapping_inc(a) ==
  IF a[2] + 1 < HalfModulus THEN <<a[1], a[2] + 1>>
  ELSE <<(a[1] + 1) % HalfModulus, 0>>

\* the least of a set of u32
MinId(S) == CHOOSE x \in S : \A y \in S : ~Lt(y, x)

\* Option<ProcessID>::None
NoId == <<-1, -1>>

\* ProcessID::new(0), the idle task
IdleId == U32(0)

(* ------------------------------ RunState ------------------------------- *)

Running == [tag |-> "Running", val |-> 0]
Sleeping(ms) == [tag |-> "Sleeping", val |-> ms]
Exited(code) == [tag |-> "Exited", val |-> code]

(* ------------------------------- state --------------------------------- *)

VARIABLES
  TASK_MAP,         \* ProcessID -> Process
  CURRENT_ID,       \* the id all kernel code takes as "current"
  NEXT_ID,          \* the id generator's counter
  free_frames,      \* frames the physical allocator has free
  page_directories, \* directory frame -> (present slot -> address)
  cr3,              \* frame of the active page directory
  tss,              \* the ring-0 stack the TSS names
  pc,               \* the switch in progress and the line it has reached
  held,             \* the processes whose lock is held, in the order taken
  forked,           \* the child a fork in progress is building, if any
  kernel_stacks,    \* ProcessID -> the kernel stack of a child that has not
                    \* run: its saved stack pointer and the words written
  waited,           \* history: ProcessID -> the yields that have passed it
                    \* over since it last ran, where yields are followed
  registers,        \* ProcessID -> the SavedRegisters of the syscall it is in
  wait_target,      \* ProcessID -> the id it is blocked on in wait_pid
  DEV_FS,           \* the DEV filesystem: its allocator and handle_to_device
  PIPES,            \* the pipe collection: its allocator and its pipes
  file_log,         \* history: closes issued, bytes each pipe took and gave,
                    \* and the LocalHandles DEV returned with their devices
  panicked,         \* the kernel has panicked
  issued,           \* history: the ids the generator returned, in order
  slept,            \* history: one observed sleep and the ticks since
  last_return,      \* history: the SavedRegisters the last step returned through
  unscheduled,      \* history: children of the fork syscall that have not run yet
  last_op           \* history: the last operation and its argument

vars == <<TASK_MAP, CURRENT_ID, NEXT_ID, free_frames, page_directories, cr3,
          tss, pc, held, forked, kernel_stacks, waited,
          registers, wait_target, DEV_FS, PIPES, file_log, panicked, issued,
          slept, last_return, unscheduled, last_op>>

\* the state of the filesystems, which the scheduler leaves alone
files == <<DEV_FS, PIPES, file_log>>

\* the progress of a switch taken line by line, which a whole operation
\* leaves as it found it: no switch in progress, no lock held
switching == <<pc, held, forked, kernel_stacks, waited>>

\* what a yield leaves alone
yielding == <<pc, held, forked, kernel_stacks>>

(* ----------------------------- memory ---------------------------------- *)

\* frames the boot code holds: the boot page directory and the page tables
\* of the kernel image and of the kernel stacks
BootDirectoryFrame == 0
KernelImageTable == 1
KernelStackTable == 2
FramePool == 3 .. (2 + NumFrames)

\* map_kernel: the kernel window of the boot directory, and its self-map
BootDirectory ==
  (KernelWindowStart :> KernelImageTable) @@
  ((KernelWindowEnd - 1) :> KernelStackTable) @@
  (SelfMapSlot :> BootDirectoryFrame)

\* what the allocator has left when the scheduler starts: the boot code has
\* taken an even or an odd number of frames for itself
BootFreeFrames == {FramePool, FramePool \ {Min(FramePool)}}

\* FrameAllocator::allocate on the bitmap: the first free frame, marked
\* allocated; with no free frame an error, and the bitmap as it was
allocate(free) ==
  IF free = {}
    THEN [ok |-> FALSE, err |-> "OutOfResources", frame |-> None,
          free |-> free]
    ELSE [ok |-> TRUE, err |-> "", frame |-> Min(free),
          free |-> free \ {Min(free)}]

\* an allocator that hands out the first frame of the pool when none is free
allocate_unchecked(free) ==
  IF free = {}
    THEN [ok |-> TRUE, err |-> "", frame |-> Min(FramePool), free |-> free]
    ELSE allocate(free)

\* memory::allocate_physical_frame: FRAME_ALLOCATOR.allocate()
allocate_physical_frame(free) == allocate(free)

\* physical::allocate_frame: the first free frame, or None
allocate_frame(free) == allocate_physical_frame(free).frame

(* ---------------------------- scheduler -------------------------------- *)

\* Process::can_resume
can_resume(process) == process.run_state = Running

\* a loop that returns the first runnable process it meets, whether or not
\* its id is above the current one
find_next_loop_first(task_map, current_id, rest, first_runnable) ==
  LET others == {id \in rest : id # current_id /\ can_resume(task_map[id])}
  IN IF others # {} THEN MinId(others) ELSE first_runnable

RECURSIVE find_next_loop(_, _, _, _)
\* the `for (id, process) in task_map.iter()` loop: `rest` are the keys not
\* yet visited, taken in ascending order
find_next_loop(task_map, current_id, rest, first_runnable) ==
  IF rest = {} THEN first_runnable
  ELSE LET id == MinId(rest) IN
    IF id = current_id
      THEN find_next_loop(task_map, current_id, rest \ {id}, first_runnable)
    ELSE IF can_resume(task_map[id])
      THEN IF Lt(current_id, id)
             THEN id
             ELSE find_next_loop(task_map, current_id, rest \ {id},
                    IF first_runnable = NoId THEN id ELSE first_runnable)
    ELSE find_next_loop(task_map, current_id, rest \ {id}, first_runnable)

\* a slip in the loop: the current process is not skipped
find_next_no_skip(task_map, current_id) ==
  LET runnable == {id \in DOMAIN task_map : can_resume(task_map[id])}
      after == {id \in runnable : ~Lt(id, current_id)}
  IN IF after # {} THEN MinId(after)
     ELSE IF runnable # {} THEN MinId(runnable) ELSE NoId

find_next_running_process(task_map, current_id) ==
  find_next_loop(task_map, current_id, DOMAIN task_map, NoId)

\* Process::get_stack_range: the kernel stack of a process, named by the
\* frame map_kernel_stack gave it (None for the boot stack of the idle task)
get_stack_range(process) == process.stack_frame

\* switch_to: the next process becomes current, the TSS names its kernel
\* stack and its directory is active
switch_to(task_map, id) ==
  IF id \in DOMAIN task_map
    THEN /\ CURRENT_ID' = id
         /\ tss' = get_stack_range(task_map[id])
         /\ cr3' = task_map[id].page_directory
         /\ panicked' = panicked
    ELSE /\ UNCHANGED <<CURRENT_ID, cr3, tss>>
         /\ panicked' = TRUE

\* yield_coop on the task map `task_map`
yield_coop(task_map) ==
  LET next == find_next_running_process(task_map, CURRENT_ID) IN
    IF next = NoId
      THEN UNCHANGED <<CURRENT_ID, cr3, tss, panicked>>
      ELSE switch_to(task_map, next)

(* ------------------------------- Init ---------------------------------- *)

\* no switch is in progress
NoSwitch == [fn |-> "none", id |-> NoId, at |-> "rest"]

\* Process::initial(0): the idle task, on the boot directory
IdleTask ==
  [parent |-> IdleId, run_state |-> Running,
   page_directory |-> BootDirectoryFrame, stack_frame |-> None,
   open_files |-> << >>]

\* SavedRegisters as the trap pushes them: register A holds the method and
\* B, C, D the arguments; edi, esi and ebp hold what the caller's code keeps
\* in them. Three fields are history: `method` and `entry` are register A and
\* <<edi, esi, ebp, ebx, edx, ecx>> on entry, and `written` is what the
\* dispatcher wrote through a pointer it took from a register, <<address,
\* value>>.
syscall_frame(method, ebx, ecx, edx) ==
  [method |-> method, eax |-> U32(method),
   ebx |-> ebx, ecx |-> ecx, edx |-> edx,
   edi |-> U32(1), esi |-> U32(2), ebp |-> U32(3),
   entry |-> <<U32(1), U32(2), U32(3), ebx, edx, ecx>>,
   written |-> << >>]

\* the step returned from no syscall
NoRegisters ==
  [syscall_frame(0, U32(0), U32(0), U32(0)) EXCEPT !.method = None]

\* no sleep is observed
NotObserved == [id |-> NoId, n |-> 0, total |-> 0, ticked |-> FALSE]

\* an idle task that is not runnable
initialize_idle_asleep ==
  /\ TASK_MAP = (IdleId :> [IdleTask EXCEPT !.run_state = Sleeping(1)])
  /\ CURRENT_ID = IdleId

\* HandleAllocator::new(): the first LocalHandle a filesystem mints
FirstHandle == 1

\* DevFileSystem::new(): nothing minted, no handle known
DevFileSystem_new == [next_handle |-> FirstHandle, handle_to_device |-> << >>]

\* PipeCollection::new(): nothing minted, no pipe
PipeCollection_new == [next_handle |-> FirstHandle, pipes |-> << >>]

\* no close has been issued and no pipe has moved a byte
NoLog == [closed |-> {}, written |-> << >>, read |-> << >>,
          dev_returned |-> << >>]

\* the filesystems after filesystems::init_fs()
init_fs ==
  /\ DEV_FS = DevFileSystem_new
  /\ PIPES = PipeCollection_new
  /\ file_log = NoLog

\* scheduler state after task::initialize()
initialize ==
  /\ TASK_MAP = (IdleId :> IdleTask)
  /\ CURRENT_ID = IdleId

Init ==
  /\ initialize
  /\ NEXT_ID = U32(1)
  /\ free_frames \in BootFreeFrames
  /\ page_directories = (BootDirectoryFrame :> BootDirectory)
  /\ cr3 = BootDirectoryFrame
  /\ tss = get_stack_range(IdleTask)
  /\ pc = NoSwitch
  /\ held = << >>
  /\ forked = << >>
  /\ kernel_stacks = << >>
  /\ waited = << >>
  /\ registers = << >>
  /\ wait_target = (IdleId :> NoId)
  /\ init_fs
  /\ panicked = FALSE
  /\ issued = << >>
  /\ slept = NotObserved
  /\ last_return = NoRegisters
  /\ unscheduled = {}
  /\ last_op = [name |-> "init", arg |-> 0]

(* ------------------------------ actions -------------------------------- *)

\* f without the key k
Without(f, k) == [x \in DOMAIN f \ {k} |-> f[x]]

\* BTreeMap::insert: an entry under an existing key is replaced
insert(map, k, v) == (k :> v) @@ map

\* the current process runs its own code: it is not the idle loop, it is not
\* inside a syscall, and it has not called exit (which never returns)
InUserMode ==
  /\ ~panicked
  /\ CURRENT_ID # IdleId
  /\ CURRENT_ID \in DOMAIN TASK_MAP
  /\ CURRENT_ID \notin DOMAIN registers
  /\ TASK_MAP[CURRENT_ID].run_state.tag # "Exited"

\* The end of _syscall_inner for the process that is current once the
\* operation is over: unless it is still looping in wait_pid or exit, it
\* returns to its own code, and the frame it returns through is popped.
\* `saved` are the frames on the kernel stacks at that point.
ReturnFromSyscall(saved) ==
  LET returns == /\ CURRENT_ID' \in DOMAIN saved
                 /\ CURRENT_ID' \in DOMAIN TASK_MAP'
                 /\ wait_target'[CURRENT_ID'] = NoId
                 /\ TASK_MAP'[CURRENT_ID'].run_state.tag # "Exited"
  IN /\ registers' = IF returns THEN Without(saved, CURRENT_ID') ELSE saved
     /\ last_return' = IF returns THEN saved[CURRENT_ID'] ELSE NoRegisters
     /\ unscheduled' = (unscheduled \cap DOMAIN TASK_MAP') \ {CURRENT_ID'}

\* the runnable processes of a task map
Runnable(task_map) ==
  {id \in DOMAIN task_map : task_map[id].run_state.tag = "Running"}

\* history: yield_coop has returned on the task map `task_map` with
\* `current_id` current: every other runnable process it follows has been
\* passed over once more
passed_over(task_map, current_id) ==
  [id \in DOMAIN waited |->
     IF id = current_id \/ id \notin Runnable(task_map) THEN 0
     ELSE IF waited[id] < Cardinality(DOMAIN waited) THEN waited[id] + 1
     ELSE waited[id]]

\* the idle loop of _start: cli; yield_coop(); sti; hlt
IdleYield ==
  /\ ~panicked
  /\ CURRENT_ID = IdleId
  /\ yield_coop(TASK_MAP)
  /\ waited' = passed_over(TASK_MAP, CURRENT_ID')
  /\ last_op' = [name |-> "yield", arg |-> 0]
  /\ UNCHANGED <<TASK_MAP, NEXT_ID, free_frames, page_directories,
                 wait_target, issued, slept, files, yielding>>
  /\ ReturnFromSyscall(registers)

\* syscall 0x6: exec::yield_coop(); register A is left as it was on entry
SyscallYield ==
  /\ InUserMode
  /\ yield_coop(TASK_MAP)
  /\ waited' = passed_over(TASK_MAP, CURRENT_ID')
  /\ last_op' = [name |-> "yield", arg |-> 0]
  /\ UNCHANGED <<TASK_MAP, NEXT_ID, free_frames, page_directories,
                 wait_target, issued, slept, files, yielding>>
  /\ ReturnFromSyscall(
       insert(registers, CURRENT_ID,
              syscall_frame(SYS_YIELD, U32(0), U32(0), U32(0))))

(* ------------------------------- fork ---------------------------------- *)

\* ProcessMap::get_next_pid / IDGenerator::next: fetch_add(1) on an AtomicU32
\* returns the old value and wraps
get_next_pid(next_pid) ==
  [pid |-> next_pid, next_pid |-> wrapping_inc(next_pid)]

\* a child that records its own id as its parent
create_fork_own_parent(parent_id, pid) ==
  [parent |-> pid, run_state |-> Running,
   page_directory |-> None, stack_frame |-> None, open_files |-> << >>]

\* ProcessState::fork / Process::create_fork: the child's record, before its
\* kernel stack and its page directory are attached; its handle table is
\* FileHandleMap::new()
create_fork(parent_id, pid) ==
  [parent |-> parent_id, run_state |-> Running,
   page_directory |-> None, stack_frame |-> None, open_files |-> << >>]

\* the copy loop stops one slot early
fork_page_directory_short(current_directory, directory_frame) ==
  LET copied == {entry \in KernelWindowStart .. (KernelWindowEnd - 2) :
                   entry \in DOMAIN current_directory}
  IN [entry \in copied \cup {SelfMapSlot} |->
        IF entry = SelfMapSlot THEN directory_frame
        ELSE current_directory[entry]]

\* every present entry of the active directory is copied
fork_page_directory_whole(current_directory, directory_frame) ==
  [entry \in DOMAIN current_directory \cup {SelfMapSlot} |->
     IF entry = SelfMapSlot THEN directory_frame
     ELSE current_directory[entry]]

\* fork_page_directory: the zeroed new directory, its self-map, and the
\* present entries 0x300..0x3ff (exclusive) of the active directory
fork_page_directory(current_directory, directory_frame) ==
  LET copied == {entry \in KernelWindowStart .. (KernelWindowEnd - 1) :
                   entry \in DOMAIN current_directory}
  IN [entry \in copied \cup {SelfMapSlot} |->
        IF entry = SelfMapSlot THEN directory_frame
        ELSE current_directory[entry]]

\* the frame a forked child returns through: the caller's, with register A 0
child_registers(saved) == [saved EXCEPT !.eax = U32(0)]

\* the fork syscall stores the pid in register B as well
fork_registers_clobber(saved, pid) == [saved EXCEPT !.eax = pid, !.ebx = pid]

\* the fork syscall stores nothing in register A
fork_registers_unset(saved, pid) == saved

\* _syscall_inner, 0x1: registers.eax = pid
fork_registers(saved, pid) == [saved EXCEPT !.eax = pid]

\* task::fork, called by the current process; `child_frame` is the
\* frame the child will return through; `from_syscall` says whether the
\* caller came through the fork syscall
fork(from_syscall, child_frame) ==
  LET generated == get_next_pid(NEXT_ID)
      next_id == generated.pid
      stack_frame == allocate_frame(free_frames)
      directory_frame == allocate_frame(free_frames \ {stack_frame})
      child == [create_fork(CURRENT_ID, next_id) EXCEPT
                  !.stack_frame = stack_frame,
                  !.page_directory = directory_frame]
  IN
  /\ CURRENT_ID \in DOMAIN TASK_MAP
  /\ Len(issued) < MaxIssued
  /\ NEXT_ID' = generated.next_pid
  /\ issued' = Append(issued, next_id)
  /\ last_op' = [name |-> "fork", arg |-> 0]
  /\ UNCHANGED <<CURRENT_ID, cr3, tss, files, switching>>
  /\ slept' = IF slept.id = next_id THEN NotObserved ELSE slept
  /\ IF stack_frame = None
       \* map_kernel_stack finds no frame
       THEN /\ panicked' = TRUE
            /\ last_return' = NoRegisters
            /\ UNCHANGED <<TASK_MAP, free_frames, page_directories,
                           registers, wait_target, unscheduled>>
     ELSE IF directory_frame = None
       \* physical::allocate_frame().unwrap() in fork_page_directory
       THEN /\ panicked' = TRUE
            /\ free_frames' = free_frames \ {stack_frame}
            /\ last_return' = NoRegisters
            /\ UNCHANGED <<TASK_MAP, page_directories,
                           registers, wait_target, unscheduled>>
     ELSE /\ panicked' = FALSE
          /\ free_frames' = free_frames \ {stack_frame, directory_frame}
          /\ page_directories' =
               insert(page_directories, directory_frame,
                      fork_page_directory(page_directories[cr3], directory_frame))
          /\ TASK_MAP' = insert(TASK_MAP, next_id, child)
          /\ wait_target' = insert(wait_target, next_id, NoId)
          /\ IF from_syscall
               THEN /\ registers' = insert(registers, next_id, child_frame)
                    /\ last_return' =
                         fork_registers(
                           syscall_frame(SYS_FORK, U32(0), U32(0), U32(0)),
                           next_id)
                    /\ unscheduled' = unscheduled \cup {next_id}
               ELSE /\ registers' = Without(registers, next_id)
                    /\ last_return' = NoRegisters
                    /\ unscheduled' = unscheduled \ {next_id}

\* kfork, as the boot code calls it before it turns into the idle loop: the
\* child starts in a kernel function, not in a syscall return
KFork ==
  /\ ~panicked
  /\ CURRENT_ID = IdleId
  /\ fork(FALSE, NoRegisters)

\* syscall 0x1: the child returns through a copy of the caller's frame in
\* which register A is 0
SyscallFork ==
  /\ InUserMode
  /\ fork(TRUE,
          child_registers(syscall_frame(SYS_FORK, U32(0), U32(0), U32(0))))

(* --------------------------- sleep and tick ---------------------------- *)

\* the sleeper is put to sleep for one ms less than it asked for
sleep_short(process, ms) ==
  [process EXCEPT !.run_state = Sleeping(IF ms > 0 THEN ms - 1 ELSE 0)]

\* ProcessState::sleep: *run_state = RunState::Sleeping(ms)
sleep(process, ms) == [process EXCEPT !.run_state = Sleeping(ms)]

\* the comparison is `>=`: a sleeper whose time is up stays asleep at 0
update_tick_late(process, delta_ms) ==
  IF process.run_state.tag = "Sleeping"
    THEN IF process.run_state.val >= delta_ms
           THEN [process EXCEPT
                   !.run_state = Sleeping(process.run_state.val - delta_ms)]
           ELSE [process EXCEPT !.run_state = Running]
    ELSE process

\* every process is made Running, whatever its state
update_tick_wake_all(process, delta_ms) ==
  IF process.run_state.tag = "Sleeping"
       /\ process.run_state.val > delta_ms
    THEN [process EXCEPT
            !.run_state = Sleeping(process.run_state.val - delta_ms)]
    ELSE [process EXCEPT !.run_state = Running]

\* ProcessState::update_tick, with the tick's length for MS_PER_TICK
\* (Process::update_timeouts(delta_ms))
update_tick(process, delta_ms) ==
  IF process.run_state.tag = "Sleeping"
    THEN IF process.run_state.val > delta_ms
           THEN [process EXCEPT
                   !.run_state = Sleeping(process.run_state.val - delta_ms)]
           ELSE [process EXCEPT !.run_state = Running]
    ELSE process

\* update_timeouts: every process of the task map takes the tick
update_timeouts(task_map, delta_ms) ==
  [id \in DOMAIN task_map |-> update_tick(task_map[id], delta_ms)]

\* syscall 0x5: exec::sleep(registers.ebx): sleep, then yield; `observe`
\* says whether this sleep is the one the history follows
SyscallSleep(ms, observe) ==
  LET task_map == [TASK_MAP EXCEPT ![CURRENT_ID] = sleep(@, ms)] IN
  /\ InUserMode
  /\ TASK_MAP' = task_map
  /\ yield_coop(task_map)
  /\ slept' = IF observe
                THEN [id |-> CURRENT_ID, n |-> ms, total |-> 0, ticked |-> FALSE]
              ELSE IF slept.id = CURRENT_ID THEN NotObserved
              ELSE slept
  /\ waited' = passed_over(task_map, CURRENT_ID')
  /\ last_op' = [name |-> "sleep", arg |-> ms]
  /\ UNCHANGED <<NEXT_ID, free_frames, page_directories, wait_target, issued,
                 files, yielding>>
  /\ ReturnFromSyscall(
       insert(registers, CURRENT_ID,
              syscall_frame(SYS_SLEEP, U32(ms), U32(0), U32(0))))

\* the timer interrupt: update_timeouts(delta_ms)
Tick(delta_ms) ==
  /\ ~panicked
  /\ TASK_MAP' = update_timeouts(TASK_MAP, delta_ms)
  /\ slept' = IF slept.id = NoId THEN slept
              ELSE [slept EXCEPT
                      !.total = IF @ + delta_ms < slept.n
                                  THEN @ + delta_ms ELSE slept.n,
                      !.ticked = TRUE]
  /\ last_op' = [name |-> "tick", arg |-> delta_ms]
  /\ UNCHANGED <<CURRENT_ID, NEXT_ID, free_frames, page_directories, cr3, tss,
                 registers, wait_target, panicked, issued, unscheduled,
                 files, switching>>
  /\ last_return' = NoRegisters

(* --------------------------- exit and wait_pid ------------------------- *)

\* the error taxonomy, in the order the dispatcher numbers it
ErrorKinds ==
  <<"Unknown", "UnsupportedCommand", "BadHandle", "BadAddress", "NotFound",
    "NoPermission", "OutOfResources", "WouldBlock">>

\* SystemError::to_code: a u32 with its top bit set
to_code(kind) ==
  <<HalfModulus \div 2,
    CHOOSE i \in 1 .. Len(ErrorKinds) : ErrorKinds[i] = kind>>

\* syscall 0x0: exec::exit(registers.ebx): mark Exited(code), yield for ever
SyscallExit(code) ==
  LET task_map == [TASK_MAP EXCEPT ![CURRENT_ID].run_state = Exited(code)] IN
  /\ InUserMode
  /\ TASK_MAP' = task_map
  /\ yield_coop(task_map)
  /\ slept' = IF slept.id = CURRENT_ID THEN NotObserved ELSE slept
  /\ last_op' = [name |-> "exit", arg |-> code]
  /\ UNCHANGED <<NEXT_ID, free_frames, page_directories, wait_target, issued,
                 files, switching>>
  /\ ReturnFromSyscall(
       insert(registers, CURRENT_ID,
              syscall_frame(SYS_EXIT, U32(code), U32(0), U32(0))))

\* any exited process is reaped, whoever its parent is
wait_pid_look_any(task_map, current_id, target) ==
  IF target \in DOMAIN task_map /\ task_map[target].run_state.tag = "Exited"
    THEN [done |-> TRUE, reap |-> TRUE,
          pid |-> target, code |-> U32(task_map[target].run_state.val)]
    ELSE [done |-> TRUE, reap |-> FALSE,
          pid |-> to_code("NotFound"), code |-> U32(0)]

\* exec::wait_pid, one look at the target: the (pid, code) it returns, or
\* `done` FALSE while the child has not exited
wait_pid_look(task_map, current_id, target) ==
  IF target \notin DOMAIN task_map \/ task_map[target].parent # current_id
    THEN [done |-> TRUE, reap |-> FALSE,
          pid |-> to_code("NotFound"), code |-> U32(0)]
  ELSE IF task_map[target].run_state.tag = "Exited"
    THEN [done |-> TRUE, reap |-> TRUE,
          pid |-> target, code |-> U32(task_map[target].run_state.val)]
  ELSE [done |-> FALSE, reap |-> FALSE, pid |-> target, code |-> U32(0)]

\* the status is not stored
wait_pid_registers_no_status(saved, pid, code) == [saved EXCEPT !.eax = pid]

\* the wait_pid arm once exec::wait_pid has returned (pid, code):
\* *status_ptr = code, with status_ptr taken from register C as it is, and
\* registers.eax = pid
wait_pid_registers(saved, pid, code) ==
  [saved EXCEPT !.eax = pid, !.written = <<saved.ecx, code>>]

\* one turn of wait_pid's loop, taken by the current process in the syscall
\* whose frame is `saved`
wait_pid(saved) ==
  LET target == saved.ebx
      look == wait_pid_look(TASK_MAP, CURRENT_ID, target)
      returned == wait_pid_registers(saved, look.pid, look.code)
  IN
  /\ last_op' = [name |-> "wait_pid", arg |-> 0]
  /\ UNCHANGED <<NEXT_ID, issued, files, switching>>
  /\ IF look.done /\ ~look.reap
       \* not a child of the caller
       THEN /\ wait_target' = [wait_target EXCEPT ![CURRENT_ID] = NoId]
            /\ UNCHANGED <<TASK_MAP, CURRENT_ID, cr3, tss, panicked,
                           free_frames,
                           page_directories, slept>>
            /\ ReturnFromSyscall(insert(registers, CURRENT_ID, returned))
     ELSE IF look.done
       \* reap the child: its record, its directory and its kernel stack
       THEN /\ TASK_MAP' = Without(TASK_MAP, target)
            /\ free_frames' = free_frames \cup
                 {TASK_MAP[target].page_directory, TASK_MAP[target].stack_frame}
            /\ page_directories' =
                 Without(page_directories, TASK_MAP[target].page_directory)
            /\ wait_target' =
                 [Without(wait_target, target) EXCEPT ![CURRENT_ID] = NoId]
            /\ slept' = IF slept.id = target THEN NotObserved ELSE slept
            /\ UNCHANGED <<CURRENT_ID, cr3, tss, panicked>>
            /\ ReturnFromSyscall(
                 insert(Without(registers, target), CURRENT_ID, returned))
     ELSE \* the child still runs: yield and look again
          /\ wait_target' = [wait_target EXCEPT ![CURRENT_ID] = target]
          /\ yield_coop(TASK_MAP)
          /\ UNCHANGED <<TASK_MAP, free_frames, page_directories, slept>>
          /\ ReturnFromSyscall(insert(registers, CURRENT_ID, saved))

\* Option<VirtualMemoryRegion>::None
NoRegion == << >>

\* ProcessState::get_range_containing_address: the start of the region of
\* the current process that holds the address, or None; a process owns its
\* stack, the 0x2000 bytes below 0xC0000000
get_range_containing_address(addr) ==
  IF addr[1] = KernelWindowStart * 64 - 1 /\ addr[2] >= HalfModulus - 8192
    THEN <<KernelWindowStart * 64 - 1, HalfModulus - 8192>>
    ELSE NoRegion

\* the addresses `status_ptr` may hold: one in the caller's stack region
\* (0xBFFFFFF8) and one in the kernel window (0xC0000000)
StatusPointers == {<<KernelWindowStart * 64 - 1, HalfModulus - 8>>,
                   <<KernelWindowStart * 64, 0>>}

\* syscall 0x9: exec::wait_pid(registers.ebx), status_ptr in register C
SyscallWaitPid(target, status_ptr) ==
  /\ InUserMode
  /\ wait_pid(syscall_frame(SYS_WAIT_PID, target, status_ptr, U32(0)))

\* a process blocked in wait_pid is switched to again and looks again
WaitPidResume ==
  /\ ~panicked
  /\ CURRENT_ID \in DOMAIN TASK_MAP
  /\ wait_target[CURRENT_ID] # NoId
  /\ wait_pid(registers[CURRENT_ID])

(* ------------------- the arms that call nothing ----------------------- *)

\* method 0xffff, debug
SYS_DEBUG == 65535

\* the methods _syscall_inner has an arm for: 0x0..0x9, 0x10..0x1f,
\* 0x30..0x33 and 0xffff
MethodTable == (0 .. 9) \cup (16 .. 31) \cup (48 .. 51) \cup {SYS_DEBUG}

\* the arms whose body is empty: brk, raise, send_signal, unlink .. getcwd,
\* register .. unmount
EmptyArms == {4, 7, 8} \cup (20 .. 28) \cup (48 .. 51)

\* the default arm is empty too
syscall_inner_no_default(saved) ==
  IF saved.method = SYS_DEBUG THEN [saved EXCEPT !.eax = U32(0)] ELSE saved

\* _syscall_inner on a method whose arm calls no other code, and on a
\* method that has no arm
syscall_inner_plain(saved) ==
  IF saved.method \in EmptyArms THEN saved
  ELSE IF saved.method = SYS_DEBUG THEN [saved EXCEPT !.eax = U32(0)]
  ELSE [saved EXCEPT !.eax = to_code("Unknown")]

\* the methods a caller passes besides those modelled one by one: the
\* reserved ones, debug, and 0x0a and 0x20, which have no arm
PlainMethods == {4, 7, 8, 20, 22, 24, 27, SYS_DEBUG, 10, 32}

\* a syscall with one of these methods
SyscallPlain(method) ==
  /\ InUserMode
  /\ last_op' = [name |-> "plain", arg |-> method]
  /\ UNCHANGED <<TASK_MAP, CURRENT_ID, NEXT_ID, free_frames, page_directories,
                 cr3, tss, wait_target, panicked, issued, slept, files,
                 switching>>
  /\ ReturnFromSyscall(
       insert(registers, CURRENT_ID,
              syscall_inner_plain(
                syscall_frame(method, U32(0), U32(0), U32(0)))))

\* the ids a syscall may name: those issued so far, and the idle task's
KnownIds == {issued[i] : i \in 1 .. Len(issued)} \cup {IdleId}

Next ==
  \/ IdleYield
  \/ SyscallYield
  \/ KFork
  \/ SyscallFork
  \/ \E ms \in 0 .. MaxSleep, observe \in BOOLEAN : SyscallSleep(ms, observe)
  \/ \E delta_ms \in 1 .. MaxDelta : Tick(delta_ms)
  \/ \E code \in ExitCodes : SyscallExit(code)
  \/ \E target \in KnownIds, status_ptr \in StatusPointers :
       SyscallWaitPid(target, status_ptr)
  \/ WaitPidResume
  \/ \E method \in PlainMethods : SyscallPlain(method)

Spec == Init /\ [][Next]_vars

(* ----------------------- the generator at its wrap --------------------- *)

\* The first task, forked by the boot code, has forked and reaped children
\* until the generator is two ids short of 2^32, and has yielded to the idle
\* task.
FirstTask ==
  [parent |-> IdleId, run_state |-> Running,
   page_directory |-> allocate_frame(FramePool \ {allocate_frame(FramePool)}),
   stack_frame |-> allocate_frame(FramePool), open_files |-> << >>]

InitWrap ==
  /\ TASK_MAP = insert(IdleId :> IdleTask, U32(1), FirstTask)
  /\ CURRENT_ID = IdleId
  /\ NEXT_ID = <<HalfModulus - 1, HalfModulus - 2>>
  /\ free_frames = FramePool \ {FirstTask.page_directory, FirstTask.stack_frame}
  /\ page_directories =
       insert(BootDirectoryFrame :> BootDirectory, FirstTask.page_directory,
              fork_page_directory(BootDirectory, FirstTask.page_directory))
  /\ cr3 = BootDirectoryFrame
  /\ tss = get_stack_range(IdleTask)
  /\ pc = NoSwitch
  /\ held = << >>
  /\ forked = << >>
  /\ kernel_stacks = << >>
  /\ waited = << >>
  /\ registers = (U32(1) :> syscall_frame(SYS_YIELD, U32(0), U32(0), U32(0)))
  /\ wait_target = insert(IdleId :> NoId, U32(1), NoId)
  /\ init_fs
  /\ panicked = FALSE
  /\ issued = << >>
  /\ slept = NotObserved
  /\ last_return = NoRegisters
  /\ unscheduled = {}
  /\ last_op = [name |-> "yield", arg |-> 0]

SpecWrap == InitWrap /\ [][Next]_vars

(* ------------------------------ files ---------------------------------- *)

\* the drives of the mount table that the model opens
DEV == "DEV"
PIPE == "PIPE"

\* Option<DeviceHandlePair>::None
NoPair == << >>

\* FileHandleMap::open_handle: the smallest FileHandle that is not open
open_handle(open_files, drive, local) ==
  LET handle == Min({h \in 0 .. Cardinality(DOMAIN open_files) :
                       h \notin DOMAIN open_files})
  IN [handle |-> handle,
      open_files |-> insert(open_files, handle, <<drive, local>>)]

\* FileHandleMap::close_handle
close_handle(open_files, handle) == Without(open_files, handle)

\* FileHandleMap::get_drive_and_handle
get_drive_and_handle(open_files, handle) ==
  IF handle \in DOMAIN open_files THEN open_files[handle] ELSE NoPair

\* a table that hands out the slot after its entries
open_file_next(process, drive, local) ==
  [handle |-> Cardinality(DOMAIN process.open_files),
   process |-> [process EXCEPT
                  !.open_files = insert(@, Cardinality(DOMAIN @),
                                        <<drive, local>>)]]

\* ProcessState::open_file, on the record of a process
open_file(process, drive, local) ==
  LET opened == open_handle(process.open_files, drive, local)
  IN [handle |-> opened.handle,
      process |-> [process EXCEPT !.open_files = opened.open_files]]

\* ProcessState::close_file
close_file(process, handle) ==
  [process EXCEPT !.open_files = close_handle(@, handle)]

\* a table that knows FileHandle 0 only
get_open_file_info_first(process, handle) ==
  IF handle = 0 THEN get_drive_and_handle(process.open_files, 0) ELSE NoPair

\* ProcessState::get_open_file_info
get_open_file_info(process, handle) ==
  get_drive_and_handle(process.open_files, handle)

(* the DEV filesystem *)

\* the device registry: a device's number is its place in it
Devices == <<"COM1", "TTY0", "ZERO">>

\* devices::get_device_number_by_name
get_device_number_by_name(name) ==
  IF \E number \in DOMAIN Devices : Devices[number] = name
    THEN CHOOSE number \in DOMAIN Devices : Devices[number] = name
    ELSE None

\* DevFileSystem::get_device_for_handle: handle_to_device.get(handle); the
\* Vec's index k is the sequence's k + 1
get_device_for_handle(fs, handle) ==
  IF handle + 1 \in DOMAIN fs.handle_to_device
    THEN fs.handle_to_device[handle + 1]
    ELSE None

\* DevFileSystem::open: Err(()) for an unknown name; else a handle from the
\* allocator; Err(()) when the driver's open fails (`driver_ok` is its
\* answer); else the table padded with None up to the handle, and the device
\* pushed
dev_open(fs, name, driver_ok) ==
  LET number == get_device_number_by_name(name)
      handle == fs.next_handle
      missing == IF Len(fs.handle_to_device) < handle
                   THEN handle - Len(fs.handle_to_device) ELSE 0
      padded == fs.handle_to_device \o [i \in 1 .. missing |-> None]
  IN IF number = None
       THEN [ok |-> FALSE, handle |-> None, number |-> None, fs |-> fs]
     ELSE IF ~driver_ok
       THEN [ok |-> FALSE, handle |-> None, number |-> None,
             fs |-> [fs EXCEPT !.next_handle = handle + 1]]
       ELSE [ok |-> TRUE, handle |-> handle, number |-> number,
             fs |-> [next_handle |-> handle + 1,
                     handle_to_device |-> Append(padded, number)]]

\* DevFileSystem::dup: Err(()) for a handle with no device; else a handle
\* from the allocator, and the source's device pushed
dev_dup(fs, handle) ==
  LET number == get_device_for_handle(fs, handle)
      new_handle == fs.next_handle
  IN IF number = None
       THEN [ok |-> FALSE, handle |-> None, number |-> None, fs |-> fs]
       ELSE [ok |-> TRUE, handle |-> new_handle, number |-> number,
             fs |-> [next_handle |-> new_handle + 1,
                     handle_to_device |-> Append(fs.handle_to_device, number)]]

\* DevFileSystem::read on DEV:\ZERO: the driver fills the buffer with zeroes
dev_read(fs, handle, length) ==
  IF get_device_for_handle(fs, handle) = None
    THEN [ok |-> FALSE, data |-> << >>]
    ELSE [ok |-> TRUE, data |-> [i \in 1 .. length |-> 0]]

\* DevFileSystem::write on DEV:\ZERO: the driver takes every byte
dev_write(fs, handle, bytes) ==
  IF get_device_for_handle(fs, handle) = None
    THEN [ok |-> FALSE, count |-> 0]
    ELSE [ok |-> TRUE, count |-> Len(bytes)]

\* DevFileSystem::ioctl: command 0 identifies the device of the handle
dev_ioctl(fs, handle, command) ==
  IF command = 0 /\ get_device_for_handle(fs, handle) # None
    THEN [ok |-> TRUE, value |-> U32(get_device_for_handle(fs, handle)),
          written |-> << >>]
    ELSE [ok |-> FALSE, value |-> U32(0), written |-> << >>]

\* DevFileSystem::close and PipeFileSystem::close: Err(())
fs_close(local) == FALSE

(* pipes *)

\* the values a byte takes
Bytes == {1, 2}

\* a position in the ring's buffer
ring_index(i) == i % PipeCapacity

\* the read end after n bytes are taken
advance(head, n) == ring_index(head + n)

\* the pipe PipeCollection::create makes: an empty ring and its two ends
new_pipe(read_end, write_end) ==
  [read_end |-> read_end, write_end |-> write_end,
   buffer |-> [i \in 0 .. (PipeCapacity - 1) |-> 0], head |-> 0, count |-> 0]

\* PipeCollection::create: two LocalHandles from the allocator, one pipe
pipe_create(collection) ==
  LET read == collection.next_handle
      write == read + 1
  IN [read |-> read, write |-> write,
      collection |-> [next_handle |-> write + 1,
                      pipes |-> Append(collection.pipes,
                                       new_pipe(read, write))]]

\* the pipe of which `handle` is the given end, or None
pipe_with(collection, end, handle) ==
  IF \E i \in DOMAIN collection.pipes : collection.pipes[i][end] = handle
    THEN CHOOSE i \in DOMAIN collection.pipes :
           collection.pipes[i][end] = handle
    ELSE None

\* bytes go in behind the last one until the ring is full
RECURSIVE ring_push(_, _)
ring_push(pipe, bytes) ==
  IF bytes = << >> \/ pipe.count = PipeCapacity THEN pipe
  ELSE ring_push(
         [pipe EXCEPT !.buffer[ring_index(pipe.head + pipe.count)] = Head(bytes),
                      !.count = @ + 1],
         Tail(bytes))

\* the n oldest bytes, oldest first
ring_take(pipe, n) ==
  [i \in 1 .. n |-> pipe.buffer[ring_index(pipe.head + i - 1)]]

\* PipeCollection::write: Err for a handle that is no write end; the bytes
\* that fit are taken; a write of bytes to a full pipe suspends the caller
pipe_write(collection, handle, bytes) ==
  LET i == pipe_with(collection, "write_end", handle) IN
  IF i = None
    THEN [ok |-> FALSE, blocked |-> FALSE, count |-> 0,
          pipe |-> None, collection |-> collection]
    ELSE LET pipe == collection.pipes[i]
             pushed == ring_push(pipe, bytes)
             count == pushed.count - pipe.count
         IN [ok |-> TRUE,
             blocked |-> bytes # << >> /\ pipe.count = PipeCapacity,
             count |-> count, pipe |-> i,
             collection |-> [collection EXCEPT !.pipes[i] = pushed]]

\* PipeCollection::read: Err for a handle that is no read end; the oldest
\* bytes, as many as the buffer holds, leave the ring; a read for bytes from
\* an empty pipe suspends the caller
pipe_read(collection, handle, length) ==
  LET i == pipe_with(collection, "read_end", handle) IN
  IF i = None
    THEN [ok |-> FALSE, blocked |-> FALSE, data |-> << >>,
          pipe |-> None, collection |-> collection]
    ELSE LET pipe == collection.pipes[i]
             n == Min({length, pipe.count})
         IN [ok |-> TRUE, blocked |-> length > 0 /\ pipe.count = 0,
             data |-> ring_take(pipe, n), pipe |-> i,
             collection |->
               [collection EXCEPT !.pipes[i] =
                  [pipe EXCEPT !.head = advance(@, n), !.count = @ - n]]]

\* a filesystem that reads one byte at most
PipeFileSystem_read_one(collection, handle, length) ==
  pipe_read(collection, handle, Min({length, 1}))

\* PipeFileSystem::read: self.collection.read(handle, buffer)
PipeFileSystem_read(collection, handle, length) ==
  pipe_read(collection, handle, length)

\* a filesystem that hands the bytes over last byte first
PipeFileSystem_write_reversed(collection, handle, bytes) ==
  pipe_write(collection, handle,
             [i \in 1 .. Len(bytes) |-> bytes[Len(bytes) + 1 - i]])

\* PipeFileSystem::write: self.collection.write(handle, buffer)
PipeFileSystem_write(collection, handle, bytes) ==
  pipe_write(collection, handle, bytes)

\* files::ioctl::FIONREAD
FIONREAD == 21531

\* PipeCollection::get_available_bytes: the bytes the pipe of the handle
\* holds, or None for a handle that is no end of a pipe
get_available_bytes(collection, handle) ==
  LET read_end == pipe_with(collection, "read_end", handle)
      write_end == pipe_with(collection, "write_end", handle)
  IN IF read_end # None THEN collection.pipes[read_end].count
     ELSE IF write_end # None THEN collection.pipes[write_end].count
     ELSE None

\* a filesystem that takes every command for FIONREAD
PipeFileSystem_ioctl_any(collection, handle, command, arg) ==
  [ok |-> TRUE, value |-> U32(0),
   written |-> <<arg, U32(get_available_bytes(collection, handle))>>]

\* PipeFileSystem::ioctl: FIONREAD stores the bytes ready to read through
\* arg and is Ok(0); every other command is Err(())
PipeFileSystem_ioctl(collection, handle, command, arg) ==
  IF command = FIONREAD /\ get_available_bytes(collection, handle) # None
    THEN [ok |-> TRUE, value |-> U32(0),
          written |-> <<arg, U32(get_available_bytes(collection, handle))>>]
    ELSE [ok |-> FALSE, value |-> U32(0), written |-> << >>]

(* the file syscalls *)

SYS_OPEN == 16
SYS_CLOSE == 17
SYS_READ == 18
SYS_WRITE == 19
SYS_DUP == 29
SYS_IOCTL == 30
SYS_PIPE == 31

\* file::open_path: the drive's filesystem opens the path and the process
\* takes a FileHandle for the LocalHandle; only DEV opens by name
open_path(process, dev, path, driver_ok) ==
  LET opened == dev_open(dev, path[2], driver_ok)
      handled == open_file(process, path[1], opened.handle)
  IN IF path[1] # DEV
       THEN [ok |-> FALSE, err |-> "NotFound", handle |-> None,
             local |-> <<None, None>>, process |-> process, dev |-> dev]
     ELSE IF ~opened.ok
       THEN [ok |-> FALSE, err |-> "NotFound", handle |-> None,
             local |-> <<None, None>>, process |-> process, dev |-> opened.fs]
       ELSE [ok |-> TRUE, err |-> "", handle |-> handled.handle,
             local |-> <<opened.handle, opened.number>>,
             process |-> handled.process, dev |-> opened.fs]

\* file::close: BadHandle for a handle that is not open; else the process
\* gives the FileHandle up and the filesystem closes its LocalHandle
close(process, handle) ==
  LET pair == get_open_file_info(process, handle) IN
  IF pair = NoPair
    THEN [ok |-> FALSE, err |-> "BadHandle", process |-> process]
    ELSE [ok |-> fs_close(pair[2]), err |-> "Unknown",
          process |-> close_file(process, handle)]

\* file::read: BadHandle for a handle that is not open; else the drive's
\* filesystem reads through the LocalHandle
read(process, dev, collection, handle, length) ==
  LET pair == get_open_file_info(process, handle) IN
  IF pair = NoPair
    THEN [ok |-> FALSE, err |-> "BadHandle", blocked |-> FALSE,
          data |-> << >>, pipe |-> None, collection |-> collection]
  ELSE IF pair[1] = DEV
    THEN dev_read(dev, pair[2], length) @@
         [err |-> "Unknown", blocked |-> FALSE, pipe |-> None,
          collection |-> collection]
  ELSE PipeFileSystem_read(collection, pair[2], length) @@ [err |-> "Unknown"]

\* file::write: as file::read
write(process, dev, collection, handle, bytes) ==
  LET pair == get_open_file_info(process, handle) IN
  IF pair = NoPair
    THEN [ok |-> FALSE, err |-> "BadHandle", blocked |-> FALSE, count |-> 0,
          pipe |-> None, collection |-> collection]
  ELSE IF pair[1] = DEV
    THEN dev_write(dev, pair[2], bytes) @@
         [err |-> "Unknown", blocked |-> FALSE, pipe |-> None,
          collection |-> collection]
  ELSE PipeFileSystem_write(collection, pair[2], bytes) @@ [err |-> "Unknown"]

\* file::ioctl: an error for a handle that is not open; else the drive's
\* filesystem takes the command
ioctl(process, dev, collection, handle, command, arg) ==
  LET pair == get_open_file_info(process, handle) IN
  IF pair = NoPair
    THEN [ok |-> FALSE, value |-> U32(0), written |-> << >>]
  ELSE IF pair[1] = DEV THEN dev_ioctl(dev, pair[2], command)
  ELSE PipeFileSystem_ioctl(collection, pair[2], command, arg)

\* file::dup: an error for a source that is not open or that its filesystem
\* does not duplicate; else the filesystem is told, and a FileHandle is
\* bound to the source's (drive, local): the lowest vacant one, or
\* `to_replace`, closed first, when the caller names one
dup(process, dev, to_duplicate, to_replace) ==
  LET pair == get_open_file_info(process, to_duplicate)
      duplicated == dev_dup(dev, pair[2])
      opened == open_file(process, pair[1], pair[2])
      replaced == [close_file(process, to_replace) EXCEPT
                     !.open_files = insert(@, to_replace, pair)]
      failed == [ok |-> FALSE, handle |-> None, local |-> <<None, None>>,
                 process |-> process, dev |-> dev]
  IN IF pair = NoPair THEN failed
     ELSE IF pair[1] # DEV THEN failed
     ELSE IF ~duplicated.ok THEN failed
     ELSE [ok |-> TRUE,
           handle |-> IF to_replace = None THEN opened.handle ELSE to_replace,
           local |-> <<duplicated.handle, duplicated.number>>,
           process |-> IF to_replace = None THEN opened.process ELSE replaced,
           dev |-> duplicated.fs]

\* file::pipe: a new pipe, and a FileHandle of the process for each end
pipe(process, collection) ==
  LET created == pipe_create(collection)
      first == open_file(process, PIPE, created.read)
      second == open_file(first.process, PIPE, created.write)
  IN [read |-> first.handle, write |-> second.handle,
      process |-> second.process, collection |-> created.collection]

\* a FileHandle as the dispatcher takes it from a register
FileHandle(register) == IF register[1] = 0 THEN register[2] ELSE None

\* the buffers a caller passes: two words on its stack, at 0xBFFFFFF0 and
\* 0xBFFFFFF8
UserBuffer == <<KernelWindowStart * 64 - 1, HalfModulus - 16>>
UserWord == <<KernelWindowStart * 64 - 1, HalfModulus - 8>>

\* the paths a caller opens: a device and a name that is no device
Paths == {<<DEV, "ZERO">>, <<DEV, "NONE">>}

\* StringPtr of a path: where the caller keeps it
PathPointer(path) == IF path[2] = "ZERO" THEN UserBuffer ELSE UserWord

\* the byte sequences a caller writes
WriteInputs == UNION {[1 .. n -> Bytes] : n \in 0 .. PipeCapacity}

\* the bytes all pipes have taken
RECURSIVE TotalWritten(_)
TotalWritten(written) ==
  IF written = << >> THEN 0
  ELSE Len(Head(written)) + TotalWritten(Tail(written))

\* what every file syscall does around its arm: the caller's record becomes
\* `process`, the scheduler is left alone, and the caller returns through
\* `returned`
FileSyscall(name, process, returned) ==
  /\ InUserMode
  /\ TASK_MAP' = [TASK_MAP EXCEPT ![CURRENT_ID] = process]
  /\ last_op' = [name |-> name, arg |-> 0]
  /\ UNCHANGED <<CURRENT_ID, NEXT_ID, free_frames, page_directories, cr3, tss,
                 wait_target, panicked, issued, slept, switching>>
  /\ ReturnFromSyscall(insert(registers, CURRENT_ID, returned))

\* the closes issued, once `handles` are handed out again to the caller
Reissued(handles) ==
  [file_log EXCEPT !.closed = @ \ {<<CURRENT_ID, h>> : h \in handles}]

\* the LocalHandles a filesystem's allocator has handed out
Minted(fs) == fs.next_handle - FirstHandle

\* syscall 0x10: file::open_path(path); register A is the handle or the code
SyscallOpen(path, driver_ok) ==
  LET saved == syscall_frame(SYS_OPEN, PathPointer(path), U32(0), U32(0))
      result == open_path(TASK_MAP[CURRENT_ID], DEV_FS, path, driver_ok)
  IN
  /\ InUserMode
  /\ Cardinality(DOMAIN TASK_MAP[CURRENT_ID].open_files) < MaxHandles
  /\ Minted(DEV_FS) < MaxMinted
  /\ DEV_FS' = result.dev
  /\ file_log' = IF result.ok
                   THEN [Reissued({result.handle}) EXCEPT
                           !.dev_returned = Append(@, result.local)]
                   ELSE file_log
  /\ UNCHANGED PIPES
  /\ FileSyscall("open", result.process,
       [saved EXCEPT !.eax = IF result.ok THEN U32(result.handle)
                            ELSE to_code(result.err)])

\* syscall 0x11: file::close(registers.eax); the caller passes `handle` in
\* register B; register A is 0 or the code
SyscallClose(handle) ==
  LET saved == syscall_frame(SYS_CLOSE, U32(handle), U32(0), U32(0))
      result == close(TASK_MAP[CURRENT_ID], FileHandle(saved.eax))
  IN
  /\ InUserMode
  /\ file_log' =
       IF handle \in DOMAIN TASK_MAP[CURRENT_ID].open_files
         THEN [file_log EXCEPT !.closed = @ \cup {<<CURRENT_ID, handle>>}]
         ELSE file_log
  /\ UNCHANGED <<DEV_FS, PIPES>>
  /\ FileSyscall("close", result.process,
       [saved EXCEPT !.eax = IF result.ok THEN U32(0)
                            ELSE to_code(result.err)])

\* syscall 0x12: file::read(registers.ebx, registers.ecx, registers.edx);
\* register A is the number of bytes read or the code
SyscallRead(handle, length) ==
  LET saved == syscall_frame(SYS_READ, U32(handle), UserBuffer, U32(length))
      result == read(TASK_MAP[CURRENT_ID], DEV_FS, PIPES,
                     FileHandle(saved.ebx), saved.edx[2])
  IN
  /\ InUserMode
  /\ ~result.blocked
  /\ PIPES' = result.collection
  /\ file_log' = IF result.ok /\ result.pipe # None
                   THEN [file_log EXCEPT !.read[result.pipe] = @ \o result.data]
                   ELSE file_log
  /\ UNCHANGED DEV_FS
  /\ FileSyscall("read", TASK_MAP[CURRENT_ID],
       IF result.ok
         THEN [saved EXCEPT !.eax = U32(Len(result.data)),
                            !.written = <<saved.ecx, result.data>>]
         ELSE [saved EXCEPT !.eax = to_code(result.err)])

\* syscall 0x13: file::write(registers.ebx, registers.ecx, registers.edx);
\* `bytes` is what the caller's buffer holds; register A is the number of
\* bytes written or the code
SyscallWrite(handle, bytes) ==
  LET saved == syscall_frame(SYS_WRITE, U32(handle), UserBuffer,
                             U32(Len(bytes)))
      result == write(TASK_MAP[CURRENT_ID], DEV_FS, PIPES,
                      FileHandle(saved.ebx), bytes)
  IN
  /\ InUserMode
  /\ ~result.blocked
  /\ TotalWritten(file_log.written) + result.count <= MaxWritten
  /\ PIPES' = result.collection
  /\ file_log' = IF result.ok /\ result.pipe # None
                   THEN [file_log EXCEPT
                           !.written[result.pipe] =
                             @ \o SubSeq(bytes, 1, result.count)]
                   ELSE file_log
  /\ UNCHANGED DEV_FS
  /\ FileSyscall("write", TASK_MAP[CURRENT_ID],
       [saved EXCEPT !.eax = IF result.ok THEN U32(result.count)
                            ELSE to_code(result.err)])

\* syscall 0x1f: file::pipe(); the two handles go through the pointers in
\* registers B and C; register A is 0
SyscallPipe ==
  LET saved == syscall_frame(SYS_PIPE, UserBuffer, UserWord, U32(0))
      result == pipe(TASK_MAP[CURRENT_ID], PIPES)
  IN
  /\ InUserMode
  /\ Cardinality(DOMAIN TASK_MAP[CURRENT_ID].open_files) + 2 <= MaxHandles
  /\ PIPES' = result.collection
  /\ file_log' = [Reissued({result.read, result.write}) EXCEPT
                    !.written = Append(@, << >>), !.read = Append(@, << >>)]
  /\ UNCHANGED DEV_FS
  /\ FileSyscall("pipe", result.process,
       [saved EXCEPT !.eax = U32(0),
                     !.written = <<saved.ebx, U32(result.read),
                                   saved.ecx, U32(result.write)>>])

\* 0xffffffff: what the dup arm returns for an error, and what a caller
\* passes for "no handle to replace"
AllOnes == <<HalfModulus - 1, HalfModulus - 1>>

\* what a caller passes in register C of dup
DupTargets == {U32(handle) : handle \in 0 .. MaxHandles} \cup {AllOnes}

\* syscall 0x1d: file::dup(registers.ebx, registers.ecx); register A is the
\* new handle or 0xffffffff
SyscallDup(to_duplicate, to_replace) ==
  LET saved == syscall_frame(SYS_DUP, U32(to_duplicate), to_replace, U32(0))
      result == dup(TASK_MAP[CURRENT_ID], DEV_FS,
                    FileHandle(saved.ebx), FileHandle(saved.ecx))
  IN
  /\ InUserMode
  /\ Cardinality(DOMAIN result.process.open_files) <= MaxHandles
  /\ Minted(DEV_FS) < MaxMinted
  /\ DEV_FS' = result.dev
  /\ file_log' = IF result.ok
                   THEN [Reissued({result.handle}) EXCEPT
                           !.dev_returned = Append(@, result.local)]
                   ELSE file_log
  /\ UNCHANGED PIPES
  /\ FileSyscall("dup", result.process,
       [saved EXCEPT !.eax = IF result.ok THEN U32(result.handle)
                            ELSE AllOnes])

\* the ioctl commands a caller passes: identify, FIONREAD, and one that no
\* filesystem knows
Commands == {0, 1, FIONREAD}

\* syscall 0x1e: file::ioctl(registers.ebx, registers.ecx, registers.edx);
\* register A is the value or the UnsupportedCommand code
SyscallIoctl(handle, command) ==
  LET saved == syscall_frame(SYS_IOCTL, U32(handle), U32(command), UserWord)
      result == ioctl(TASK_MAP[CURRENT_ID], DEV_FS, PIPES,
                      FileHandle(saved.ebx), saved.ecx[2], saved.edx)
  IN
  /\ InUserMode
  /\ UNCHANGED <<DEV_FS, PIPES, file_log>>
  /\ FileSyscall("ioctl", TASK_MAP[CURRENT_ID],
       [saved EXCEPT !.eax = IF result.ok THEN result.value
                            ELSE to_code("UnsupportedCommand"),
                     !.written = result.written])

\* one process opens devices, and closes, reads and writes its handles
\* what the caller asks a device for: no byte or one
DevLengths == {0, 1}

NextFiles ==
  \/ \E path \in Paths, driver_ok \in BOOLEAN : SyscallOpen(path, driver_ok)
  \/ \E to_duplicate \in 0 .. MaxHandles, to_replace \in DupTargets :
       SyscallDup(to_duplicate, to_replace)
  \/ \E handle \in 0 .. MaxHandles : SyscallClose(handle)
  \/ \E handle \in 0 .. MaxHandles, length \in DevLengths :
       SyscallRead(handle, length)
  \/ \E handle \in 0 .. MaxHandles,
        bytes \in {input \in WriteInputs : Len(input) \in DevLengths} :
       SyscallWrite(handle, bytes)
  \/ \E handle \in 0 .. MaxHandles, command \in Commands :
       SyscallIoctl(handle, command)

\* one process makes pipes, and reads and writes its handles
NextPipes ==
  \/ SyscallPipe
  \/ \E handle \in 0 .. MaxHandles, length \in 0 .. PipeCapacity :
       SyscallRead(handle, length)
  \/ \E handle \in 0 .. MaxHandles, bytes \in WriteInputs :
       SyscallWrite(handle, bytes)
  \/ \E handle \in 0 .. MaxHandles, command \in Commands :
       SyscallIoctl(handle, command)

\* The boot code has forked the first task and yielded to it: the task runs
\* its own code, on its own directory, with no file open.
InitFiles ==
  /\ TASK_MAP = insert(IdleId :> IdleTask, U32(1), FirstTask)
  /\ CURRENT_ID = U32(1)
  /\ NEXT_ID = U32(2)
  /\ free_frames = FramePool \ {FirstTask.page_directory, FirstTask.stack_frame}
  /\ page_directories =
       insert(BootDirectoryFrame :> BootDirectory, FirstTask.page_directory,
              fork_page_directory(BootDirectory, FirstTask.page_directory))
  /\ cr3 = FirstTask.page_directory
  /\ tss = get_stack_range(FirstTask)
  /\ pc = NoSwitch
  /\ held = << >>
  /\ forked = << >>
  /\ kernel_stacks = << >>
  /\ waited = << >>
  /\ registers = << >>
  /\ wait_target = insert(IdleId :> NoId, U32(1), NoId)
  /\ init_fs
  /\ panicked = FALSE
  /\ issued = <<U32(1)>>
  /\ slept = NotObserved
  /\ last_return = NoRegisters
  /\ unscheduled = {}
  /\ last_op = [name |-> "yield", arg |-> 0]

SpecFiles == InitFiles /\ [][NextFiles]_vars

SpecPipes == InitFiles /\ [][NextPipes]_vars

(* the handle table of a process, called by kernel code *)

\* the record of the current process
Current == TASK_MAP[CURRENT_ID]

\* the LocalHandles kernel code binds
Locals == FirstHandle .. (FirstHandle + 2)

\* what a call that is no syscall leaves alone
KernelCall ==
  /\ ~panicked
  /\ CURRENT_ID \in DOMAIN TASK_MAP
  /\ last_return' = NoRegisters
  /\ UNCHANGED <<CURRENT_ID, NEXT_ID, free_frames, page_directories, cr3, tss,
                 registers, wait_target, panicked, issued, slept, unscheduled,
                 files, switching>>

\* current_process.open_file(drive, local)
OpenFile(drive, local) ==
  LET opened == open_file(Current, drive, local) IN
  /\ KernelCall
  /\ Cardinality(DOMAIN Current.open_files) < MaxHandles
  /\ TASK_MAP' = [TASK_MAP EXCEPT ![CURRENT_ID] = opened.process]
  /\ last_op' = [name |-> "open_file", arg |-> opened.handle,
                 pair |-> <<drive, local>>]

\* current_process.close_file(handle)
CloseFile(handle) ==
  /\ KernelCall
  /\ TASK_MAP' = [TASK_MAP EXCEPT ![CURRENT_ID] = close_file(@, handle)]
  /\ last_op' = [name |-> "close_file", arg |-> handle, pair |-> NoPair]

NextHandles ==
  \/ \E drive \in {DEV, PIPE}, local \in Locals : OpenFile(drive, local)
  \/ \E handle \in 0 .. MaxHandles : CloseFile(handle)

SpecHandles == InitFiles /\ [][NextHandles]_vars

(* ------------------------------ claims --------------------------------- *)

Live == DOMAIN TASK_MAP

\* the selection C1 describes
Selection(task_map, current_id) ==
  LET others == Runnable(task_map) \ {current_id}
      after == {id \in others : Lt(current_id, id)}
  IN IF after # {} THEN MinId(after)
     ELSE IF others # {} THEN MinId(others) ELSE NoId

C1_Selected ==
  LET next == find_next_running_process(TASK_MAP, CURRENT_ID) IN
  /\ next = Selection(TASK_MAP, CURRENT_ID)
  /\ next # CURRENT_ID
  /\ next # NoId => next \in Live /\ TASK_MAP[next].run_state = Running

C1_Switch ==
  /\ CURRENT_ID' # CURRENT_ID => CURRENT_ID' = Selection(TASK_MAP', CURRENT_ID)
  /\ last_op'.name = "yield" =>
       IF Selection(TASK_MAP, CURRENT_ID) = NoId
         THEN CURRENT_ID' = CURRENT_ID
         ELSE CURRENT_ID' = Selection(TASK_MAP, CURRENT_ID)

\* C1: find_next_running_process selects the least runnable id above
\* CURRENT_ID, else the least runnable id other than CURRENT_ID, else nothing;
\* what it selects is never CURRENT_ID and is a Running process of the map;
\* yield_coop switches to the selected process, and does not switch when
\* nothing is selected.
C1_SchedulerSelection == []C1_Selected /\ [][C1_Switch]_vars

\* a yield by a task with the highest runnable id has wrapped around to a
\* lower one, and the next selection wraps around too
C1_Witness ==
  /\ last_op.name = "yield"
  /\ Cardinality(Live) >= 3
  /\ CURRENT_ID # IdleId
  /\ \E id \in Live : Lt(CURRENT_ID, id) /\ TASK_MAP[id].run_state # Running
  /\ find_next_running_process(TASK_MAP, CURRENT_ID) = IdleId

C2_SingleTick ==
  last_op'.name = "tick" =>
    \A id \in Live :
      LET before == TASK_MAP[id].run_state
          delta_ms == last_op'.arg
      IN /\ id \in DOMAIN TASK_MAP'
         /\ IF before.tag = "Sleeping"
              THEN TASK_MAP'[id].run_state =
                     IF before.val > delta_ms
                       THEN Sleeping(before.val - delta_ms)
                       ELSE Running
              ELSE TASK_MAP'[id] = TASK_MAP[id]

C2_Total ==
  slept.id # NoId =>
    /\ slept.id \in Live
    /\ slept.total < slept.n =>
         TASK_MAP[slept.id].run_state = Sleeping(slept.n - slept.total)
    /\ slept.ticked /\ slept.total >= slept.n =>
         TASK_MAP[slept.id].run_state = Running

\* C2: a tick of delta_ms turns Sleeping(m) into Sleeping(m - delta_ms) when
\* m > delta_ms and into Running otherwise, and leaves every other process as
\* it is; after ticks that total delta ms a process that slept for n ms is
\* Sleeping(n - delta) when delta < n and Running when delta >= n.
C2_TickAccounting == []C2_Total /\ [][C2_SingleTick]_vars

\* ticks have woken the observed sleeper from the longest sleep while
\* another process is part of the way through its own
C2_Witness ==
  /\ last_op.name = "tick"
  /\ slept.id # NoId /\ slept.n = MaxSleep /\ slept.total = slept.n
  /\ TASK_MAP[slept.id].run_state = Running
  /\ \E id \in Live : TASK_MAP[id].run_state.tag = "Sleeping"

C3_Step ==
  /\ last_op'.name = "sleep" =>
       /\ CURRENT_ID \in DOMAIN TASK_MAP'
       /\ TASK_MAP'[CURRENT_ID].run_state = Sleeping(last_op'.arg)
  /\ CURRENT_ID' # CURRENT_ID =>
       TASK_MAP'[CURRENT_ID'].run_state.tag # "Sleeping"
  /\ \A id \in Live :
       TASK_MAP[id].run_state.tag = "Sleeping" /\ last_op'.name # "tick" =>
         id \in DOMAIN TASK_MAP' /\ TASK_MAP'[id] = TASK_MAP[id]

\* C3: sleep(ms) leaves the caller Sleeping(ms); the scheduler never switches
\* to a Sleeping process; and only a tick changes a Sleeping process.
C3_NoEarlyWake == [][C3_Step]_vars

\* a yield has passed over a sleeper that ticks have not yet woken
C3_Witness ==
  /\ last_op.name = "yield"
  /\ slept.id # NoId /\ slept.ticked
  /\ TASK_MAP[slept.id].run_state.tag = "Sleeping"
  /\ Lt(IdleId, slept.id) /\ Lt(slept.id, CURRENT_ID)

\* the id the generator returned last
LastIssued == issued[Len(issued)]

WasIssued(id) == \E i \in 1 .. Len(issued) : issued[i] = id

C4_Step ==
  last_op'.name = "fork" /\ ~panicked' =>
    LET child == issued'[Len(issued')] IN
    /\ child \notin Live
    /\ ~WasIssued(child)
    /\ DOMAIN TASK_MAP' = Live \cup {child}
    /\ TASK_MAP'[child].run_state = Running
    /\ TASK_MAP'[child].parent = CURRENT_ID
    /\ CURRENT_ID' = CURRENT_ID
    /\ \A id \in Live : TASK_MAP'[id] = TASK_MAP[id]

C5_Step ==
  /\ last_op'.name = "fork" /\ ~panicked' /\ CURRENT_ID # IdleId =>
       /\ last_return'.method = SYS_FORK
       /\ last_return'.eax = issued'[Len(issued')]
  /\ \A id \in unscheduled :
       CURRENT_ID' = id =>
         last_return'.method = SYS_FORK /\ last_return'.eax = U32(0)

C5_Unscheduled ==
  \A id \in unscheduled :
    /\ id \in Live /\ id \in DOMAIN registers
    /\ registers[id].method = SYS_FORK /\ registers[id].eax = U32(0)

\* C5: the fork syscall returns the child's id in register A to the parent,
\* and the child, when it is first switched to, returns from that syscall
\* with register A equal to 0.
C5_ForkReturn == []C5_Unscheduled /\ [][C5_Step]_vars

\* the child of a fork syscall has been switched to and has returned from
\* the syscall with 0, its parent being a task that is still alive
C5_Witness ==
  /\ CURRENT_ID # IdleId
  /\ WasIssued(CURRENT_ID)
  /\ last_op.name # "fork"
  /\ last_return.method = SYS_FORK /\ last_return.eax = U32(0)
  /\ TASK_MAP[CURRENT_ID].parent # IdleId
  /\ TASK_MAP[CURRENT_ID].parent \in Live

\* a u32 that reads as an error code: its top bit is set
IsErrorCode(code) == code[1] >= HalfModulus \div 2

C6_Step ==
  last_op'.name = "fork" /\ Cardinality(free_frames) < 2 =>
    /\ ~panicked'
    /\ IsErrorCode(last_return'.eax)
    /\ TASK_MAP' = TASK_MAP
    /\ CURRENT_ID' = CURRENT_ID
    /\ free_frames' = free_frames

\* C6: a fork that cannot get its frames returns an error code and leaves the
\* task map, CURRENT_ID and the free frames as they were.
C6_ForkFailureAtomic == [][C6_Step]_vars

\* C7: the generator starts at 1, never returns 0, and every id it returns is
\* greater than every id it returned before.
C7_IdsMonotonic ==
  \A i \in 1 .. Len(issued) :
    /\ issued[i] # U32(0)
    /\ \A j \in 1 .. (i - 1) : Lt(issued[j], issued[i])

KernelWindow(directory) ==
  LET slots == {slot \in DOMAIN directory :
                  slot >= KernelWindowStart /\ slot < KernelWindowEnd}
  IN [slot \in slots |-> directory[slot]]

\* C9: the page directories of any two live processes agree in every slot
\* 0x300..=0x3FE: each has the same entries there, and the same slots empty.
C9_KernelWindowShared ==
  \A p, q \in Live :
    KernelWindow(page_directories[TASK_MAP[p].page_directory]) =
    KernelWindow(page_directories[TASK_MAP[q].page_directory])

\* three directories are live, one of them forked from a forked directory
C9_Witness ==
  /\ Cardinality({TASK_MAP[id].page_directory : id \in Live}) >= 3
  /\ \E id \in Live : TASK_MAP[id].parent # IdleId

C10_Step ==
  /\ last_op'.name = "exit" =>
       /\ CURRENT_ID \in DOMAIN TASK_MAP'
       /\ TASK_MAP'[CURRENT_ID].run_state = Exited(last_op'.arg)
  /\ CURRENT_ID' # CURRENT_ID =>
       TASK_MAP'[CURRENT_ID'].run_state.tag # "Exited"
  /\ \A id \in Live :
       TASK_MAP[id].run_state.tag = "Exited" =>
         IF id \in DOMAIN TASK_MAP'
           THEN TASK_MAP'[id].run_state = TASK_MAP[id].run_state
           ELSE last_op'.name = "wait_pid"

\* C10: exit(code) leaves the caller Exited(code); the scheduler never
\* switches to an Exited process; and an Exited process stays Exited(code)
\* until wait_pid removes it.
C10_ExitFinal == [][C10_Step]_vars

\* ticks and a yield have gone past a process that exited with code 0x10
C10_Witness ==
  /\ last_op.name = "yield"
  /\ \E id \in Live :
       /\ TASK_MAP[id].run_state = Exited(16)
       /\ Lt(id, CURRENT_ID)
  /\ CURRENT_ID \notin DOMAIN registers

(* the syscall a step ran for the process that was current, seen from the
   step's end: whether it returned, and its frame *)
Returned == CURRENT_ID \notin DOMAIN registers'
Frame == IF Returned THEN last_return' ELSE registers'[CURRENT_ID]
IsChild(target) == target \in Live /\ TASK_MAP[target].parent = CURRENT_ID

C11_Step ==
  last_op'.name = "wait_pid" =>
    LET target == Frame.ebx IN
    /\ Frame.method = SYS_WAIT_PID
    /\ IsChild(target) /\ TASK_MAP[target].run_state.tag # "Exited" =>
         /\ ~Returned
         /\ TASK_MAP' = TASK_MAP
    /\ IsChild(target) /\ TASK_MAP[target].run_state.tag = "Exited" =>
         /\ Returned
         /\ Frame.eax = target
         /\ Frame.written = <<Frame.ecx, U32(TASK_MAP[target].run_state.val)>>
         /\ target \notin DOMAIN TASK_MAP'

\* C11: wait_pid(id) on a child does not return while the child is not
\* Exited; once the child is Exited(code) it returns the child's id in
\* register A, stores code through the status pointer, and the child is no
\* longer in the task map.
C11_WaitAfterExit == [][C11_Step]_vars

\* a parent has reaped a child that exited with code 0x10 while a third
\* process is alive
C11_Witness ==
  /\ last_op.name = "wait_pid"
  /\ last_return.method = SYS_WAIT_PID
  /\ last_return.eax = last_return.ebx
  /\ last_return.written = <<last_return.ecx, U32(16)>>
  /\ get_range_containing_address(last_return.ecx) # NoRegion
  /\ last_return.ebx \notin Live
  /\ Cardinality(Live) >= 2

C12_Step ==
  last_op'.name = "wait_pid" /\ ~IsChild(Frame.ebx) =>
    /\ Returned
    /\ Frame.method = SYS_WAIT_PID
    /\ Frame.eax = to_code("NotFound")
    /\ TASK_MAP' = TASK_MAP
    /\ free_frames' = free_frames

\* C12: wait_pid on an id that is not a child of the caller returns NotFound
\* in register A and removes no process.
C12_WaitNonChild == [][C12_Step]_vars

\* a task has waited for its parent, which had exited, and got NotFound
C12_Witness ==
  /\ last_op.name = "wait_pid"
  /\ last_return.eax = to_code("NotFound")
  /\ last_return.ebx \in Live
  /\ last_return.ebx = TASK_MAP[CURRENT_ID].parent
  /\ TASK_MAP[last_return.ebx].run_state.tag = "Exited"

\* C14: a syscall that is handed a pointer outside every region of the
\* current process returns BadAddress and accesses nothing through it
\* (stated for the status pointer of wait_pid).
C14_UserPointerSafety ==
  last_return.method = SYS_WAIT_PID
    /\ get_range_containing_address(last_return.ecx) = NoRegion =>
      /\ last_return.eax = to_code("BadAddress")
      /\ last_return.written = << >>

C16_Step ==
  last_op'.name = "plain" /\ last_op'.arg \notin MethodTable =>
    /\ Returned
    /\ last_return'.method = last_op'.arg
    /\ last_return'.eax = to_code("Unknown")
    /\ UNCHANGED <<TASK_MAP, CURRENT_ID, NEXT_ID, free_frames,
                   page_directories, cr3, tss, registers, wait_target, panicked,
                   DEV_FS, PIPES>>

\* C16: a syscall whose method has no arm in the dispatcher returns the
\* Unknown error code in register A and changes nothing else.
C16_UnknownMethod == [][C16_Step]_vars

\* method 0x20 has returned while another task sleeps
C16_Witness ==
  /\ last_op = [name |-> "plain", arg |-> 32]
  /\ last_return.eax = to_code("Unknown")
  /\ \E id \in Live : TASK_MAP[id].run_state.tag = "Sleeping"

\* the method codes the spec reserves
ReservedMethods == {4, 7, 8, 20, 22, 24, 27}

\* C17: brk, raise, send_signal, unlink, stat, mkdir and chdir return the
\* UnsupportedCommand error code in register A.
C17_ReservedMethods ==
  last_return.method \in ReservedMethods =>
    last_return.eax = to_code("UnsupportedCommand")

\* C18: the sleep syscall and the yield syscall return 0 in register A.
C18_SleepYieldReturn ==
  last_return.method \in {SYS_SLEEP, SYS_YIELD} => last_return.eax = U32(0)

\* C13: after the close syscall has been issued for a FileHandle that is
\* open in a process, a read syscall of that process on the handle returns
\* BadHandle.
C13_CloseInvalidates ==
  last_return.method = SYS_READ
    /\ <<CURRENT_ID, FileHandle(last_return.ebx)>> \in file_log.closed =>
      last_return.eax = to_code("BadHandle")

\* the pipe of which the FileHandle in `register` is the given end for the
\* current process, or None
PipeOf(register, end) ==
  LET pair == get_open_file_info(TASK_MAP[CURRENT_ID], FileHandle(register)) IN
  IF pair = NoPair THEN None
  ELSE IF pair[1] # PIPE THEN None
  ELSE pipe_with(PIPES, end, pair[2])

\* a is the start of b
IsPrefix(a, b) == Len(a) <= Len(b) /\ a = SubSeq(b, 1, Len(a))

C19_Step ==
  \A i \in DOMAIN PIPES.pipes :
    LET b == file_log.written[i] IN
    /\ last_return.method = SYS_WRITE
    /\ PipeOf(last_return.ebx, "write_end") = i
    /\ last_return.edx = U32(Len(b))
    /\ last_return.eax = U32(Len(b))
    /\ file_log.read[i] = << >>
    /\ Len(b) <= PipeCapacity
    /\ last_op'.name = "read"
    /\ PipeOf(last_return'.ebx, "read_end") = i
    /\ last_return'.edx = U32(Len(b))
    => /\ last_return'.eax = U32(Len(b))
       /\ last_return'.written = <<last_return'.ecx, b>>

\* C19: when a write has put a byte sequence b, no longer than the pipe's
\* capacity, into a pipe that had taken no byte before, a read of |b| bytes
\* from the read end returns |b| and fills the buffer with b.
C19_PipeRoundTrip == [][C19_Step]_vars

\* a read has returned, in one piece, a full ring of two different bytes
C19_Witness ==
  /\ last_op.name = "read"
  /\ last_return.method = SYS_READ
  /\ last_return.eax = U32(PipeCapacity)
  /\ PIPES.pipes # << >>
  /\ file_log.written[1] = file_log.read[1]
  /\ last_return.written = <<last_return.ecx, file_log.written[1]>>
  /\ file_log.written[1][1] # file_log.written[1][2]

\* C20: for every pipe, the bytes its reads have returned, in order, are
\* the start of the bytes its writes have taken, in order, and the bytes
\* between the two are the ones the ring holds.
C20_PipeFifo ==
  \A i \in DOMAIN PIPES.pipes :
    /\ IsPrefix(file_log.read[i], file_log.written[i])
    /\ file_log.written[i] =
         file_log.read[i] \o ring_take(PIPES.pipes[i], PIPES.pipes[i].count)

\* a pipe has taken more bytes than its ring holds, not all the same, and
\* has given every one of them back
C20_Witness ==
  /\ PIPES.pipes # << >>
  /\ Len(file_log.written[1]) > PipeCapacity
  /\ file_log.read[1] = file_log.written[1]
  /\ \E j \in 2 .. Len(file_log.written[1]) :
       file_log.written[1][j] # file_log.written[1][1]
  /\ last_return.method = SYS_READ

\* C21: ioctl on a handle of a pipe with command 0x541B stores, through
\* the pointer in register D, the number of bytes the pipe has taken and not
\* yet given, and returns 0; with any other command it returns an error code
\* and stores nothing.
C21_PipeFionread ==
  \A i \in DOMAIN PIPES.pipes :
    last_return.method = SYS_IOCTL
      /\ i \in {PipeOf(last_return.ebx, "read_end"),
                PipeOf(last_return.ebx, "write_end")} =>
        IF last_return.ecx = U32(FIONREAD)
          THEN /\ last_return.eax = U32(0)
               /\ last_return.written =
                    <<last_return.edx,
                      U32(Len(file_log.written[i]) - Len(file_log.read[i]))>>
          ELSE /\ IsErrorCode(last_return.eax)
               /\ last_return.written = << >>

\* FIONREAD has counted one byte in a pipe that has taken more bytes than
\* its ring holds
C21_Witness ==
  /\ last_return.method = SYS_IOCTL
  /\ last_return.ecx = U32(FIONREAD)
  /\ last_return.written = <<last_return.edx, U32(1)>>
  /\ PIPES.pipes # << >>
  /\ Len(file_log.written[1]) > PipeCapacity

\* C22: the LocalHandles that successful opens and dups of DEV returned are
\* all different, and get_device_for_handle of each is the number of the
\* device it was opened on (for dup, the device of the source).
C22_DevHandleTable ==
  LET returned == file_log.dev_returned IN
  /\ \A j, k \in DOMAIN returned : j # k => returned[j][1] # returned[k][1]
  /\ \A j \in DOMAIN returned :
       get_device_for_handle(DEV_FS, returned[j][1]) = returned[j][2]

\* the handle dup returned is bound as the source is, and every read and
\* write through it does what the same read or write through the source does
C23_Alias ==
  last_return.method = SYS_DUP /\ last_return.eax # AllOnes =>
    LET src == FileHandle(last_return.ebx)
        dst == FileHandle(last_return.eax)
    IN /\ get_open_file_info(Current, dst) # NoPair
       /\ get_open_file_info(Current, dst) = get_open_file_info(Current, src)
       /\ \A length \in 0 .. PipeCapacity :
            read(Current, DEV_FS, PIPES, dst, length)
              = read(Current, DEV_FS, PIPES, src, length)
       /\ \A bytes \in WriteInputs :
            write(Current, DEV_FS, PIPES, dst, bytes)
              = write(Current, DEV_FS, PIPES, src, bytes)

\* a close issued for one of two handles bound alike leaves the other open,
\* and a read on the other succeeds
C23_Close ==
  last_op'.name = "close" =>
    LET dst == FileHandle(last_return'.ebx) IN
    \A src \in DOMAIN Current.open_files \ {dst} :
      get_open_file_info(Current, src) = get_open_file_info(Current, dst) =>
        /\ get_open_file_info(TASK_MAP'[CURRENT_ID], src)
             = get_open_file_info(Current, src)
        /\ read(TASK_MAP'[CURRENT_ID], DEV_FS', PIPES', src, 1).ok

C24_DevCloses ==
  last_return.method = SYS_CLOSE
    /\ <<CURRENT_ID, FileHandle(last_return.ebx)>> \in file_log.closed =>
      last_return.eax = U32(0)

C25_Step ==
  last_op'.name = "open_file" =>
    LET handle == last_op'.arg IN
    /\ handle \in Nat
    /\ handle \notin DOMAIN Current.open_files
    /\ \A lower \in 0 .. (handle - 1) : lower \in DOMAIN Current.open_files
    /\ get_open_file_info(TASK_MAP'[CURRENT_ID], handle) = last_op'.pair
    /\ \A other \in DOMAIN Current.open_files :
         get_open_file_info(TASK_MAP'[CURRENT_ID], other)
           = get_open_file_info(Current, other)

\* C25: open_file returns the smallest non-negative integer that is no open
\* FileHandle of the process, get_open_file_info of it is the (drive, local)
\* it was opened with, and the handles that were open stay as they were.
C25_LowestVacant == [][C25_Step]_vars

\* open_file has filled the hole that close_file(0) left below an open
\* handle
C25_Witness ==
  /\ last_op.name = "open_file"
  /\ last_op.arg = 0
  /\ DOMAIN Current.open_files = {0, 1}
  /\ Current.open_files[0] # Current.open_files[1]

\* the frames the live processes hold
HeldFrames ==
  UNION {{TASK_MAP[id].stack_frame, TASK_MAP[id].page_directory} :
           id \in Live \ {IdleId}}

C26_Step ==
  last_op'.name = "fork" /\ free_frames = {} =>
    LET result == allocate_physical_frame(free_frames) IN
    /\ ~result.ok
    /\ result.err = "OutOfResources"
    /\ result.frame = None
    /\ result.free = free_frames
    /\ free_frames' = free_frames
    /\ HeldFrames' = HeldFrames
    /\ page_directories' = page_directories

\* C26: an allocation made when no frame is free returns OutOfResources and
\* no frame, and the free frames and the frames in use stay as they were.
C26_OutOfMemory == [][C26_Step]_vars

\* a fork has asked for a frame while the live processes held every frame
\* of the pool
C26_Witness ==
  /\ last_op.name = "fork"
  /\ free_frames = {}
  /\ HeldFrames = FramePool
  /\ Len(issued) > Cardinality(Live \ {IdleId})

(* ------------------- the context switch, line by line ------------------ *)

\* the ids a switch is asked for: ids of processes, and ids of none
SwitchIds == {U32(n) : n \in 0 .. MaxIssued}

\* no switch is in progress
AtRest == pc.fn = "none"

\* a lookup that finds an entry under every id
get_process_any(task_map, id) == id

\* get_process: the entry of the map under id, None when there is none
get_process(task_map, id) == IF id \in DOMAIN task_map THEN id ELSE NoId

\* switch_inner: mov cr3, next.page_directory; the stacks are exchanged
switch_inner(active, next) == next.page_directory

\* usermode_enter_inner: the stacks are exchanged and iretd executed; cr3 is
\* not written
usermode_enter_inner(active, next) == active

\* what a line of switch_to or usermode_enter leaves alone
SwitchLine(at) ==
  /\ ~panicked
  /\ ~AtRest
  /\ pc.at = at
  /\ last_return' = NoRegisters
  /\ last_op' = [name |-> pc.fn, arg |-> 0]
  /\ UNCHANGED <<TASK_MAP, NEXT_ID, free_frames, page_directories, registers,
                 wait_target, issued, slept, unscheduled, files, forked,
                 kernel_stacks, waited>>

\* kernel code calls switch_to(id) or usermode_enter(id)
SwitchCall(fn, id) ==
  /\ ~panicked
  /\ AtRest
  /\ CURRENT_ID \in DOMAIN TASK_MAP
  /\ pc' = [fn |-> fn, id |-> id, at |-> "lock_current"]
  /\ last_return' = NoRegisters
  /\ last_op' = [name |-> fn, arg |-> 0]
  /\ UNCHANGED <<TASK_MAP, CURRENT_ID, NEXT_ID, free_frames, page_directories,
                 cr3, tss, held, registers, wait_target, panicked, issued,
                 slept, unscheduled, files, forked, kernel_stacks,
                 waited>>

\* let current_lock = get_current_process(); let mut current =
\* current_lock.write();
LockCurrent ==
  /\ SwitchLine("lock_current")
  /\ UNCHANGED <<CURRENT_ID, cr3, tss>>
  /\ IF CURRENT_ID \in DOMAIN TASK_MAP
       THEN /\ held' = Append(held, CURRENT_ID)
            /\ pc' = [pc EXCEPT !.at = "get_next"]
            /\ panicked' = FALSE
       \* expect("Current process does not exist!")
       ELSE /\ panicked' = TRUE
            /\ UNCHANGED <<pc, held>>

\* let next_lock = get_process(id).unwrap();
GetNext ==
  /\ SwitchLine("get_next")
  /\ UNCHANGED <<CURRENT_ID, cr3, tss, held>>
  /\ IF get_process(TASK_MAP, pc.id) = NoId
       THEN /\ panicked' = TRUE
            /\ pc' = pc
       ELSE /\ panicked' = FALSE
            /\ pc' = [pc EXCEPT !.at = "lock_next"]

\* let mut next = next_lock.write(); the lock spins while it is held
LockNext ==
  /\ SwitchLine("lock_next")
  /\ UNCHANGED <<CURRENT_ID, cr3, tss, panicked>>
  /\ IF \E i \in 1 .. Len(held) : held[i] = pc.id
       THEN /\ pc' = [pc EXCEPT !.at = "spin"]
            /\ held' = held
       ELSE /\ pc' = [pc EXCEPT !.at = "release"]
            /\ held' = Append(held, pc.id)

\* the end of the block: the guards are dropped
Release ==
  /\ SwitchLine("release")
  /\ UNCHANGED <<CURRENT_ID, cr3, tss, panicked>>
  /\ held' = << >>
  /\ pc' = [pc EXCEPT !.at = "write_id"]

\* *CURRENT_ID.write() = *id;
WriteId ==
  /\ SwitchLine("write_id")
  /\ UNCHANGED <<cr3, tss, panicked, held>>
  /\ CURRENT_ID' = pc.id
  /\ pc' = [pc EXCEPT !.at = IF pc.fn = "switch_to" THEN "tss" ELSE "inner"]

\* switch_to: set_tss_stack_pointer(next.get_stack_range().end - 4)
SetTss ==
  /\ SwitchLine("tss")
  /\ UNCHANGED <<CURRENT_ID, cr3, panicked, held>>
  /\ tss' = get_stack_range(TASK_MAP[pc.id])
  /\ pc' = [pc EXCEPT !.at = "inner"]

\* switch_inner(current, next) or usermode_enter_inner(current, next), and
\* the next process runs
Inner ==
  /\ SwitchLine("inner")
  /\ UNCHANGED <<CURRENT_ID, tss, panicked, held>>
  /\ cr3' = IF pc.fn = "switch_to"
              THEN switch_inner(cr3, TASK_MAP[pc.id])
              ELSE usermode_enter_inner(cr3, TASK_MAP[pc.id])
  /\ pc' = NoSwitch

\* the active directory has not been freed: fork_page_directory reads it
ActiveDirectory == cr3 \in DOMAIN page_directories

NextSwitch ==
  \/ AtRest /\ ActiveDirectory /\ KFork
  \/ AtRest /\ ActiveDirectory /\ SyscallFork
  \/ AtRest /\ \E code \in ExitCodes : SyscallExit(code)
  \/ AtRest /\ \E target \in KnownIds, status_ptr \in StatusPointers :
       SyscallWaitPid(target, status_ptr)
  \/ AtRest /\ WaitPidResume
  \/ \E fn \in {"switch_to", "usermode_enter"}, id \in SwitchIds :
       SwitchCall(fn, id)
  \/ LockCurrent
  \/ GetNext
  \/ LockNext
  \/ Release
  \/ WriteId
  \/ SetTss
  \/ Inner

SpecSwitch == Init /\ [][NextSwitch]_vars

C27_Live == CURRENT_ID \in DOMAIN TASK_MAP

C27_Step ==
  /\ panicked => CURRENT_ID' = CURRENT_ID
  /\ pc.at = "get_next" /\ pc.id \notin DOMAIN TASK_MAP =>
       panicked' /\ CURRENT_ID' = CURRENT_ID

\* C27: CURRENT_ID is always a key of the task map; switch_to and
\* usermode_enter asked for an id that is not in the map panic, and
\* CURRENT_ID is as it was from then on.
C27_CurrentLive == []C27_Live /\ [][C27_Step]_vars

\* a switch to the id of a process that has been reaped has panicked, with
\* another process still current
C27_Witness ==
  /\ panicked
  /\ pc.at = "get_next"
  /\ pc.id \in KnownIds \ DOMAIN TASK_MAP
  /\ CURRENT_ID \in DOMAIN TASK_MAP
  /\ CURRENT_ID # IdleId

\* C28: during switch_to and usermode_enter at most one process lock is
\* held at a time, none is held once CURRENT_ID is about to be written or
\* the TSS, cr3 or esp touched, and no switch waits for a lock it holds.
C28_LockDiscipline ==
  /\ Len(held) <= 1
  /\ pc.at \in {"write_id", "tss", "inner"} => held = << >>
  /\ pc.at # "spin"

C29_Step ==
  ~AtRest /\ AtRest' =>
    /\ cr3' = TASK_MAP'[CURRENT_ID'].page_directory
    /\ tss' = get_stack_range(TASK_MAP'[CURRENT_ID'])

\* C29: when switch_to or usermode_enter has run to its end, cr3 holds the
\* page directory of the process CURRENT_ID names and the TSS names the top
\* of that process's kernel stack.
C29_HardwareFollows == [][C29_Step]_vars

(* ------------------ forks of a directory with user tables -------------- *)

\* slots below the kernel window in which a process has page tables of its
\* own: the first and the last
UserSlots == {0, KernelWindowStart - 1}

\* the frame of the private page table a process has in a user slot
PrivateTable(slot) == 2 * SelfMapSlot + slot

\* a directory with private page tables in the slots `slots`
with_user_tables(directory, slots) ==
  [slot \in slots |-> PrivateTable(slot)] @@ directory

\* The first task has run user code: region walks have given it page tables
\* in some of its user slots.
InitDirectory ==
  /\ TASK_MAP = insert(IdleId :> IdleTask, U32(1), FirstTask)
  /\ CURRENT_ID = U32(1)
  /\ NEXT_ID = U32(2)
  /\ free_frames = FramePool \ {FirstTask.page_directory, FirstTask.stack_frame}
  /\ \E slots \in SUBSET UserSlots :
       page_directories =
         insert(BootDirectoryFrame :> BootDirectory, FirstTask.page_directory,
                with_user_tables(
                  fork_page_directory(BootDirectory, FirstTask.page_directory),
                  slots))
  /\ cr3 = FirstTask.page_directory
  /\ tss = get_stack_range(FirstTask)
  /\ pc = NoSwitch
  /\ held = << >>
  /\ forked = << >>
  /\ kernel_stacks = << >>
  /\ waited = << >>
  /\ registers = << >>
  /\ wait_target = insert(IdleId :> NoId, U32(1), NoId)
  /\ init_fs
  /\ panicked = FALSE
  /\ issued = <<U32(1)>>
  /\ slept = NotObserved
  /\ last_return = NoRegisters
  /\ unscheduled = {}
  /\ last_op = [name |-> "yield", arg |-> 0]

NextDirectory ==
  \/ SyscallFork
  \/ SyscallYield
  \/ IdleYield
  \/ \E code \in ExitCodes : SyscallExit(code)
  \/ \E target \in KnownIds, status_ptr \in StatusPointers :
       SyscallWaitPid(target, status_ptr)
  \/ WaitPidResume

SpecDirectory == InitDirectory /\ [][NextDirectory]_vars

\* the slots of `directory` below the kernel window that are present
UserEntries(directory) ==
  {slot \in DOMAIN directory : slot < KernelWindowStart}

C30_Step ==
  last_op'.name = "fork" /\ ~panicked' =>
    LET frame == TASK_MAP'[issued'[Len(issued')]].page_directory
        returned == page_directories'[frame]
        current_directory == page_directories[cr3]
    IN /\ SelfMapSlot \in DOMAIN returned
       /\ returned[SelfMapSlot] = frame
       /\ \A slot \in KernelWindowStart .. (KernelWindowEnd - 1) :
            slot \in DOMAIN current_directory =>
              slot \in DOMAIN returned /\ returned[slot] = current_directory[slot]
       /\ \A slot \in 0 .. (KernelWindowStart - 1) : slot \notin DOMAIN returned
       /\ \A other \in DOMAIN page_directories :
            \A mine \in UserEntries(returned),
               theirs \in UserEntries(page_directories[other]) :
              returned[mine] # page_directories[other][theirs]

\* C30: the directory fork_page_directory returns has slot 1023 present and
\* pointing at its own frame, every slot 0x300..=0x3FE that is present in
\* the current directory equal to it, and no slot 0..=0x2FF present, so it
\* shares no private page table with the directory of any other process.
C30_ForkDirectory == [][C30_Step]_vars

\* a process with page tables in its first and last user slot has forked:
\* the child's directory has the kernel window and none of them
C30_Witness ==
  /\ last_op.name = "fork"
  /\ ~panicked
  /\ UserEntries(page_directories[cr3]) = UserSlots
  /\ LET returned == page_directories[TASK_MAP[LastIssued].page_directory]
     IN /\ UserEntries(returned) = {}
        /\ KernelWindow(returned) = KernelWindow(page_directories[cr3])
        /\ KernelWindowEnd - 1 \in DOMAIN returned

(* ------------- fork line by line, and the first stack frame ------------ *)

\* the size of a page: kernel stack pointers are counted from STACK_START
PageSize == 4096

\* the most frames the boot code writes on one kernel stack
MaxEntryFrames == 2

\* ProcessState::fork: kernel_esp is STACK_START + 0x1000 - 4, nothing is
\* written; `outside` are writes that have landed off the stack's page
new_stack == [kernel_esp |-> PageSize - 4, words |-> << >>, outside |-> {}]

\* Process::stack_push_u32: the stack pointer goes down a word and the word
\* is written there
stack_push_u32(stack, value) ==
  [stack EXCEPT !.kernel_esp = @ - 4,
                !.words = ((stack.kernel_esp - 4) :> value) @@ @]

\* the code segment and the flags are written in each other's place
entry_frame_swapped(func, esp) == <<U32(35), esp, U32(27), U32(512), func>>

\* the words set_initial_entry_point writes at stack_ptr.offset(-1 .. -5):
\* ss, esp, eflags, cs, eip
entry_frame(func, esp) == <<U32(35), esp, U32(512), U32(27), func>>

\* set_initial_entry_point: make_current_stack_frame_editable maps the page
\* of kernel_esp at the temporary page; the five words go below
\* temp_page_address + (kernel_esp & 0xfff), and kernel_esp goes down by 20
set_initial_entry_point(stack, func, esp) ==
  LET kernel_esp == stack.kernel_esp
      stack_offset == kernel_esp % PageSize
      page == kernel_esp - stack_offset
      inside == {i \in 1 .. 5 : stack_offset - 4 * i >= 0}
  IN [kernel_esp |-> kernel_esp - 4 * 5,
      words |->
        [address \in {page + stack_offset - 4 * i : i \in inside} |->
           entry_frame(func, esp)[(page + stack_offset - address) \div 4]]
        @@ stack.words,
      outside |->
        stack.outside \cup
          {<<stack_offset - 4 * i, entry_frame(func, esp)[i]>> :
             i \in (1 .. 5) \ inside}]

\* insertion into the task map comes before the directory is built
fork_lines_insert_first ==
  <<"create", "map_kernel_stack", "insert", "allocate_directory",
    "self_map", "copy_window">>

\* the lines of fork, with those of fork_page_directory in their place
fork_lines ==
  <<"create", "map_kernel_stack", "allocate_directory", "self_map",
    "copy_window", "insert">>

\* the callers of fork in the boot code
BootCalls == {"kfork", "fork_current"}

\* the line after `at`: the next of fork, or what the caller does with the
\* child when fork has returned
next_line(fn, at) ==
  LET index == CHOOSE i \in 1 .. Len(fork_lines) : fork_lines[i] = at IN
  IF index < Len(fork_lines) THEN fork_lines[index + 1]
  ELSE IF fn = "kfork" THEN "stack_push" ELSE "set_initial_entry_point"

\* entry addresses of kernel functions
KernelFunctions == {U32(4096), U32(8192)}

\* an entry address with the user stack pointer that goes with it:
\* 0xbffffffc as in _start, and another
EntryPoints == {<<U32(4096), <<49151, 65532>>>>, <<U32(8192), <<49151, 65280>>>>}

\* what a line of the boot code leaves alone
BootLine(at) ==
  /\ ~panicked
  /\ pc.fn \in BootCalls
  /\ pc.at = at
  /\ last_return' = NoRegisters
  /\ last_op' = [name |-> pc.fn, arg |-> 0]
  /\ UNCHANGED <<CURRENT_ID, cr3, tss, held, registers, slept, unscheduled,
                 files, waited>>

\* the boot code, running as the idle task, calls kfork or forks the
\* process it will enter user mode in
ForkCall(fn) ==
  /\ ~panicked
  /\ AtRest
  /\ CURRENT_ID = IdleId
  /\ Len(issued) < MaxIssued
  /\ pc' = [fn |-> fn, id |-> NoId, at |-> fork_lines[1]]
  /\ last_return' = NoRegisters
  /\ last_op' = [name |-> fn, arg |-> 0]
  /\ UNCHANGED <<TASK_MAP, CURRENT_ID, NEXT_ID, free_frames, page_directories,
                 cr3, tss, held, forked, kernel_stacks, registers,
                 wait_target, panicked, issued, slept, unscheduled, files,
                 waited>>

\* let next_id = NEXT_ID.next(); let mut child = parent.create_fork(..)
ForkCreate ==
  LET generated == get_next_pid(NEXT_ID) IN
  /\ BootLine("create")
  /\ NEXT_ID' = generated.next_pid
  /\ issued' = Append(issued, generated.pid)
  /\ forked' = <<create_fork(CURRENT_ID, generated.pid)>>
  /\ kernel_stacks' = insert(kernel_stacks, generated.pid, new_stack)
  /\ pc' = [pc EXCEPT !.id = generated.pid, !.at = next_line(pc.fn, pc.at)]
  /\ UNCHANGED <<TASK_MAP, free_frames, page_directories, wait_target,
                 panicked>>

\* map_kernel_stack(child.get_stack_range())
MapKernelStack ==
  LET result == allocate_physical_frame(free_frames) IN
  /\ BootLine("map_kernel_stack")
  /\ UNCHANGED <<TASK_MAP, NEXT_ID, issued, page_directories, wait_target,
                 kernel_stacks>>
  /\ IF result.ok
       THEN /\ free_frames' = result.free
            /\ forked' = <<[forked[1] EXCEPT !.stack_frame = result.frame]>>
            /\ pc' = [pc EXCEPT !.at = next_line(pc.fn, pc.at)]
            /\ panicked' = FALSE
       ELSE /\ panicked' = TRUE
            /\ UNCHANGED <<free_frames, forked, pc>>

\* fork_page_directory: physical::allocate_frame().unwrap();
\* directory_table.zero()
DirectoryAllocate ==
  LET result == allocate_physical_frame(free_frames) IN
  /\ BootLine("allocate_directory")
  /\ UNCHANGED <<TASK_MAP, NEXT_ID, issued, wait_target, kernel_stacks>>
  /\ IF result.ok
       THEN /\ free_frames' = result.free
            /\ page_directories' =
                 insert(page_directories, result.frame, << >>)
            /\ forked' =
                 <<[forked[1] EXCEPT !.page_directory = result.frame]>>
            /\ pc' = [pc EXCEPT !.at = next_line(pc.fn, pc.at)]
            /\ panicked' = FALSE
       ELSE /\ panicked' = TRUE
            /\ UNCHANGED <<free_frames, page_directories, forked, pc>>

\* fork_page_directory: the top entry is set to the directory itself
DirectorySelfMap ==
  LET frame == forked[1].page_directory IN
  /\ BootLine("self_map")
  /\ page_directories' =
       [page_directories EXCEPT ![frame] = (SelfMapSlot :> frame) @@ @]
  /\ pc' = [pc EXCEPT !.at = next_line(pc.fn, pc.at)]
  /\ UNCHANGED <<TASK_MAP, NEXT_ID, issued, free_frames, wait_target,
                 panicked, forked, kernel_stacks>>

\* fork_page_directory: the kernel-space entries of the current table are
\* copied, and the directory is returned
DirectoryCopy ==
  LET frame == forked[1].page_directory IN
  /\ BootLine("copy_window")
  /\ page_directories' =
       [page_directories EXCEPT
          ![frame] = fork_page_directory(page_directories[cr3], frame)]
  /\ pc' = [pc EXCEPT !.at = next_line(pc.fn, pc.at)]
  /\ UNCHANGED <<TASK_MAP, NEXT_ID, issued, free_frames, wait_target,
                 panicked, forked, kernel_stacks>>

\* map.insert(next_id, Arc::new(RwLock::new(child)))
ForkInsert ==
  /\ BootLine("insert")
  /\ TASK_MAP' = insert(TASK_MAP, pc.id, forked[1])
  /\ wait_target' = insert(wait_target, pc.id, NoId)
  /\ pc' = [pc EXCEPT !.at = next_line(pc.fn, pc.at)]
  /\ UNCHANGED <<NEXT_ID, issued, free_frames, page_directories, panicked,
                 forked, kernel_stacks>>

\* kfork: child.stack_push_u32(dest as u32)
StackPush(dest) ==
  /\ BootLine("stack_push")
  /\ kernel_stacks' =
       [kernel_stacks EXCEPT ![pc.id] = stack_push_u32(@, dest)]
  /\ pc' = NoSwitch
  /\ forked' = << >>
  /\ UNCHANGED <<TASK_MAP, NEXT_ID, issued, free_frames, page_directories,
                 wait_target, panicked>>

\* _start: init_proc.set_initial_entry_point(user_init, 0xbffffffc); the
\* boot code may write a further frame on the same stack
SetEntry(func, esp, again) ==
  /\ BootLine("set_initial_entry_point")
  /\ again =>
       kernel_stacks[pc.id].kernel_esp > PageSize - 4 * 5 * MaxEntryFrames
  /\ kernel_stacks' =
       [kernel_stacks EXCEPT ![pc.id] = set_initial_entry_point(@, func, esp)]
  /\ pc' = IF again THEN pc ELSE NoSwitch
  /\ forked' = IF again THEN forked ELSE << >>
  /\ UNCHANGED <<TASK_MAP, NEXT_ID, issued, free_frames, page_directories,
                 wait_target, panicked>>

NextBoot ==
  \/ \E fn \in BootCalls : ForkCall(fn)
  \/ ForkCreate
  \/ MapKernelStack
  \/ DirectoryAllocate
  \/ DirectorySelfMap
  \/ DirectoryCopy
  \/ ForkInsert
  \/ \E dest \in KernelFunctions : StackPush(dest)
  \/ \E entry \in EntryPoints, again \in BOOLEAN :
       SetEntry(entry[1], entry[2], again)
  \/ AtRest /\ IdleYield
  \/ AtRest /\ SyscallYield

SpecBoot == Init /\ [][NextBoot]_vars

\* the directory in `frame` is fully built: it maps itself and has the
\* kernel window of the boot directory
Built(frame) ==
  /\ frame \in DOMAIN page_directories
  /\ SelfMapSlot \in DOMAIN page_directories[frame]
  /\ page_directories[frame][SelfMapSlot] = frame
  /\ KernelWindow(page_directories[frame]) = KernelWindow(BootDirectory)

\* C31: every process in the task map has a fully built page directory, and
\* the current process is never a child whose first stack frame (kfork's
\* entry address, or the frame of set_initial_entry_point) is not written.
C31_NoPartialProcess ==
  /\ \A id \in DOMAIN TASK_MAP : Built(TASK_MAP[id].page_directory)
  /\ CURRENT_ID \in DOMAIN kernel_stacks =>
       DOMAIN kernel_stacks[CURRENT_ID].words # {}
  /\ pc.at \in {"stack_push", "set_initial_entry_point"} =>
       CURRENT_ID # pc.id

\* the scheduler has switched to one of two forked children: its stack
\* frame is written and its directory, now active, is built
C31_Witness ==
  /\ CURRENT_ID # IdleId
  /\ CURRENT_ID \in DOMAIN kernel_stacks
  /\ DOMAIN kernel_stacks[CURRENT_ID].words # {}
  /\ cr3 = TASK_MAP[CURRENT_ID].page_directory
  /\ Built(cr3)
  /\ Cardinality(DOMAIN TASK_MAP) = 3

C32_Step ==
  pc.at = "set_initial_entry_point" /\ kernel_stacks' # kernel_stacks =>
    LET k == kernel_stacks[pc.id].kernel_esp
        after == kernel_stacks'[pc.id]
    IN /\ after.kernel_esp = k - 20
       /\ {k - 20, k - 16, k - 12, k - 8, k - 4} \subseteq DOMAIN after.words
       /\ \E entry \in EntryPoints :
            /\ after.words[k - 20] = entry[1]
            /\ after.words[k - 16] = U32(27)
            /\ after.words[k - 12] = U32(512)
            /\ after.words[k - 8] = entry[2]
            /\ after.words[k - 4] = U32(35)
       /\ k - 20 >= 0 /\ k - 4 < PageSize
       /\ after.outside = {}
       /\ \A id \in DOMAIN kernel_stacks \ {pc.id} :
            kernel_stacks'[id] = kernel_stacks[id]

\* C32: set_initial_entry_point(func, esp) on a process whose saved kernel
\* stack pointer is k leaves it at k - 20, with func, 0x1B, 0x200, esp, 0x23
\* at k-20, k-16, k-12, k-8, k-4, all in the process's own kernel stack page.
C32_EntryFrame == [][C32_Step]_vars

\* a second frame has been written below the first on the stack of a child
C32_Witness ==
  \E id \in DOMAIN kernel_stacks :
    /\ kernel_stacks[id].kernel_esp = PageSize - 4 - 40
    /\ Cardinality(DOMAIN kernel_stacks[id].words) = 10
    /\ kernel_stacks[id].words[PageSize - 4 - 40] # kernel_stacks[id].words[PageSize - 4 - 20]

(* --------------------- open files across a fork ------------------------ *)

\* a process opens devices, forks and yields, and parent and child write
\* through their handles, as user_init does
NextInherit ==
  \/ \E path \in Paths, driver_ok \in BOOLEAN : SyscallOpen(path, driver_ok)
  \/ SyscallFork
  \/ SyscallYield
  \/ IdleYield
  \/ \E handle \in 0 .. MaxHandles,
        bytes \in {input \in WriteInputs : Len(input) \in DevLengths} :
       SyscallWrite(handle, bytes)

SpecInherit == InitFiles /\ [][NextInherit]_vars

C33_Step ==
  last_op'.name = "fork" /\ ~panicked' =>
    LET parent == TASK_MAP[CURRENT_ID]
        forked_child == TASK_MAP'[issued'[Len(issued')]]
    IN \A handle \in DOMAIN parent.open_files :
         /\ get_open_file_info(forked_child, handle)
              = get_open_file_info(parent, handle)
         /\ get_open_file_info(TASK_MAP'[CURRENT_ID], handle)
              = get_open_file_info(parent, handle)

\* C33: every FileHandle open in a process when it forks is open in the
\* child and names the same (drive, local handle), and stays so in the parent.
C33_HandlesSurviveFork == [][C33_Step]_vars

(* ------------------------------ round robin ---------------------------- *)

\* the second process the boot code forks: its frames are the next two the
\* allocator gives after the first task's
SecondTask ==
  LET free == FramePool \ {FirstTask.page_directory, FirstTask.stack_frame}
      stack_frame == allocate_frame(free)
  IN [parent |-> IdleId, run_state |-> Running,
      page_directory |-> allocate_frame(free \ {stack_frame}),
      stack_frame |-> stack_frame, open_files |-> << >>]

\* the processes of the round
RoundIds == {IdleId, U32(1), U32(2)}

\* The boot code has forked two tasks and entered its idle loop; no process
\* is forked or reaped from here on, and the yields are followed.
InitRound ==
  /\ TASK_MAP = insert(insert(IdleId :> IdleTask, U32(1), FirstTask),
                       U32(2), SecondTask)
  /\ CURRENT_ID = IdleId
  /\ NEXT_ID = U32(3)
  /\ free_frames = FramePool \ {FirstTask.page_directory,
                                FirstTask.stack_frame,
                                SecondTask.page_directory,
                                SecondTask.stack_frame}
  /\ page_directories =
       insert(insert(BootDirectoryFrame :> BootDirectory,
                     FirstTask.page_directory,
                     fork_page_directory(BootDirectory,
                                         FirstTask.page_directory)),
              SecondTask.page_directory,
              fork_page_directory(BootDirectory, SecondTask.page_directory))
  /\ cr3 = BootDirectoryFrame
  /\ tss = get_stack_range(IdleTask)
  /\ pc = NoSwitch
  /\ held = << >>
  /\ forked = << >>
  /\ kernel_stacks = << >>
  /\ waited = [id \in RoundIds |-> 0]
  /\ registers = << >>
  /\ wait_target = [id \in RoundIds |-> NoId]
  /\ init_fs
  /\ panicked = FALSE
  /\ issued = <<U32(1), U32(2)>>
  /\ slept = NotObserved
  /\ last_return = NoRegisters
  /\ unscheduled = {}
  /\ last_op = [name |-> "fork", arg |-> 0]

\* the process that runs gives the processor up: it yields, or it sleeps
RoundYield ==
  \/ IdleYield
  \/ SyscallYield
  \/ \E ms \in 0 .. MaxSleep : SyscallSleep(ms, FALSE)

\* the processes yield and sleep, and the timer ticks
NextRound ==
  \/ RoundYield
  \/ \E delta_ms \in 1 .. MaxDelta : Tick(delta_ms)

\* every process that runs calls yield_coop in the end
SpecRound == InitRound /\ [][NextRound]_vars /\ WF_vars(RoundYield)

\* C34: with a fixed set of processes, each of which gives the processor up
\* in the end, a process that stays Running is never passed over by as many
\* yields as there are processes, and it runs again: no runnable process is
\* starved.
C34_RoundRobin ==
  /\ [](\A id \in RoundIds : waited[id] < Cardinality(RoundIds))
  /\ \A id \in RoundIds :
       (TASK_MAP[id].run_state = Running) ~> (CURRENT_ID = id)

\* a process has been passed over by a yield for every other process, all of
\* them runnable, and the next yield is its turn
C34_Witness ==
  \E id \in RoundIds :
    /\ Runnable(TASK_MAP) = RoundIds
    /\ waited[id] = Cardinality(RoundIds) - 1
    /\ find_next_running_process(TASK_MAP, CURRENT_ID) = id
    /\ last_op.name = "yield"
====
